---- MODULE Spec2Model ----
(***************************************************************************)
(* A model of the AI Career Advisor (src/main.py): the student profile and *)
(* its completion percentage, the career scorer get_sample_careers, the    *)
(* skills-gap diff of the Skills Analysis page, the fallback roadmap       *)
(* generator, and the session state the page handlers keep.                *)
(*                                                                         *)
(* Python values are represented as follows.                               *)
(*   list            a sequence                                            *)
(*   set             a set                                                 *)
(*   Optional[T]     a sequence of length <= 1: None is <<>>, v is <<v>>   *)
(*   dict            a record                                              *)
(*   float           a fraction [num, den] (den > 0), compared exactly     *)
(***************************************************************************)
EXTENDS Integers, Sequences, FiniteSets, TLC

VARIABLES
    student_profile,         \* st.session_state.student_profile
    career_recommendations,  \* st.session_state.career_recommendations
    skills_analysis,         \* st.session_state.skills_analysis
    learning_roadmap,        \* st.session_state.learning_roadmap
    current_page,            \* st.session_state.current_page
    selected_career_for_analysis,  \* session key, absent until a button sets it
    selected_career_for_roadmap,   \* session key, absent until a button sets it
    view                     \* what the last interaction computed and displayed

vars == <<student_profile, career_recommendations, skills_analysis,
          learning_roadmap, current_page, selected_career_for_analysis,
          selected_career_for_roadmap, view>>

(***************************************************************************)
(* Bounds of the model.                                                    *)
(***************************************************************************)
MaxSkills == 2      \* longest skill list drawn as an input
MaxInterests == 1   \* longest interest list drawn as an input
MaxRequired == 3    \* longest required_skills list of a drawn career
MaxEdits == 2       \* profile fields changed from the empty or full profile

(***************************************************************************)
(* Generic helpers for Python built-ins.                                   *)
(***************************************************************************)
None == <<>>
Some(v) == <<v>>

Range(s) == {s[i] : i \in 1..Len(s)}

Min(a, b) == IF a <= b THEN a ELSE b
Max(a, b) == IF a >= b THEN a ELSE b

\* All sequences over S of length at most n.
SeqsUpTo(S, n) == UNION {[1..k -> S] : k \in 0..n}

\* s[a:b] for 0 <= a, 0 <= b: indices are clamped to len(s).
Slice(s, a, b) ==
    LET lo == Min(a, Len(s))
        hi == Min(b, Len(s))
    IN IF lo >= hi THEN <<>> ELSE SubSeq(s, lo + 1, hi)

\* str.lower(): every string of the model that holds an upper-case letter
\* is listed with its lower-cased form; the others are their own lower case.
LowerTable ==
    ("Programming" :> "programming") @@
    ("Data Structures" :> "data structures") @@
    ("Problem Solving" :> "problem solving") @@
    ("Software Design" :> "software design") @@
    ("Python" :> "python") @@
    ("PYTHON" :> "python") @@
    ("Statistics" :> "statistics") @@
    ("Machine Learning" :> "machine learning") @@
    ("Data Visualization" :> "data visualization") @@
    ("Digital Marketing" :> "digital marketing") @@
    ("SEO/SEM" :> "seo/sem") @@
    ("Content Creation" :> "content creation") @@
    ("Analytics" :> "analytics") @@
    ("Business Analysis" :> "business analysis") @@
    ("Process Improvement" :> "process improvement") @@
    ("Data Analysis" :> "data analysis") @@
    ("Communication" :> "communication") @@
    ("Design Tools" :> "design tools") @@
    ("User Research" :> "user research") @@
    ("Prototyping" :> "prototyping") @@
    ("Visual Design" :> "visual design") @@
    ("Programming (Python)" :> "programming (python)") @@
    ("Programming (Java)" :> "programming (java)") @@
    ("Web Development" :> "web development") @@
    ("Technology" :> "technology") @@
    ("TECHNOLOGY" :> "technology") @@
    ("Sales & Marketing" :> "sales & marketing") @@
    ("Business & Management" :> "business & management") @@
    ("Creative & Media" :> "creative & media") @@
    ("Healthcare" :> "healthcare") @@
    ("Business" :> "business") @@
    ("Programming (C++)" :> "programming (c++)") @@
    ("Database Management" :> "database management") @@
    ("Cloud Computing" :> "cloud computing") @@
    ("Mobile App Development" :> "mobile app development") @@
    ("UI/UX Design" :> "ui/ux design") @@
    ("Content Writing" :> "content writing") @@
    ("Media" :> "media") @@
    ("Finance" :> "finance")

Lower(s) == IF s \in DOMAIN LowerTable THEN LowerTable[s] ELSE s

LowerAll(xs) == [i \in 1..Len(xs) |-> Lower(xs[i])]

(***************************************************************************)
(* StudentProfile (dataclass) as constructed with no arguments.            *)
(***************************************************************************)
StudentProfile ==
    [name |-> None, age |-> None, email |-> None, phone |-> None,
     location |-> None, languages |-> <<>>,
     education_level |-> None, stream |-> None, institution |-> None,
     academic_performance |-> None, subjects |-> <<>>,
     current_skills |-> <<>>, technical_skills |-> <<>>, interests |-> <<>>,
     personality_traits |-> <<>>,
     work_environment |-> <<>>, salary_expectations |-> None,
     job_type_preference |-> <<>>, location_preference |-> <<>>,
     career_goals |-> None]

(***************************************************************************)
(* The career catalog of get_sample_careers.  The descriptive texts of an  *)
(* entry (description, why_suitable, education_required, salary_range,     *)
(* job_outlook, career_path) are constants no operation reads to decide    *)
(* anything; an entry keeps its title, category, score and skills.         *)
(***************************************************************************)
all_careers ==
    << [title |-> "Software Engineer", category |-> "Technology",
        match_score |-> 85,
        required_skills |-> <<"Programming", "Data Structures",
                              "Problem Solving", "Software Design">>],
       [title |-> "Data Scientist", category |-> "Technology",
        match_score |-> 80,
        required_skills |-> <<"Python", "Statistics", "Machine Learning",
                              "Data Visualization">>],
       [title |-> "Digital Marketing Specialist",
        category |-> "Sales & Marketing", match_score |-> 75,
        required_skills |-> <<"Digital Marketing", "SEO/SEM",
                              "Content Creation", "Analytics">>],
       [title |-> "Business Analyst", category |-> "Business & Management",
        match_score |-> 70,
        required_skills |-> <<"Business Analysis", "Process Improvement",
                              "Data Analysis", "Communication">>],
       [title |-> "UI/UX Designer", category |-> "Creative & Media",
        match_score |-> 78,
        required_skills |-> <<"Design Tools", "User Research",
                              "Prototyping", "Visual Design">>] >>

(***************************************************************************)
(* get_sample_careers: the scoring loop, the sort and the slice.           *)
(***************************************************************************)
\* Variants of the scorer with a plausible slip, used to test the formulas.
AdjustScoreCaseSensitive(career, profile) ==
    LET base == career.match_score
        skill_overlap ==
            Cardinality(Range(career.required_skills)
                        \cap Range(profile.technical_skills))
        afterSkills == IF profile.technical_skills # <<>> /\ skill_overlap > 0
                       THEN base + skill_overlap * 5 ELSE base
        afterInterest ==
            IF profile.interests # <<>>
               /\ career.category \in Range(profile.interests)
            THEN afterSkills + 10 ELSE afterSkills
    IN Min(afterInterest, 100)

AdjustScoreNoClamp(career, profile) ==
    LET base == career.match_score
        skill_overlap ==
            Cardinality(Range(LowerAll(career.required_skills))
                        \cap Range(LowerAll(profile.technical_skills)))
        afterSkills == IF profile.technical_skills # <<>> /\ skill_overlap > 0
                       THEN base + skill_overlap * 5 ELSE base
    IN IF profile.interests # <<>>
          /\ Lower(career.category) \in Range(LowerAll(profile.interests))
       THEN afterSkills + 10 ELSE afterSkills

\* A skill counts when the required skill occurs inside a technical skill.
ProperSubstrings ==
    {<<"programming (python)", "programming">>,
     <<"programming (python)", "python">>,
     <<"programming (java)", "programming">>}

AdjustScoreSubstringMatch(career, profile) ==
    LET base == career.match_score
        career_skills == Range(LowerAll(career.required_skills))
        student_skills == Range(LowerAll(profile.technical_skills))
        skill_overlap ==
            Cardinality({s \in career_skills :
                            \E t \in student_skills :
                                s = t \/ <<t, s>> \in ProperSubstrings})
        afterSkills == IF profile.technical_skills # <<>> /\ skill_overlap > 0
                       THEN base + skill_overlap * 5 ELSE base
        afterInterest ==
            IF profile.interests # <<>>
               /\ Lower(career.category) \in Range(LowerAll(profile.interests))
            THEN afterSkills + 10 ELSE afterSkills
    IN Min(afterInterest, 100)

\* One iteration of the loop body: the entry's new match_score.
AdjustScore(career, profile) ==
    LET base == career.match_score
        career_skills == LowerAll(career.required_skills)
        student_skills == LowerAll(profile.technical_skills)
        skill_overlap ==
            Cardinality(Range(career_skills) \cap Range(student_skills))
        afterSkills == IF profile.technical_skills # <<>> /\ skill_overlap > 0
                       THEN base + skill_overlap * 5 ELSE base
        afterInterest ==
            IF profile.interests # <<>>
               /\ Lower(career.category) \in Range(LowerAll(profile.interests))
            THEN afterSkills + 10 ELSE afterSkills
    IN Min(afterInterest, 100)

\* list.sort(key=match_score, reverse=True): a stable sort, descending; an
\* entry is placed after every entry whose score is at least its own.
RECURSIVE InsertDesc(_, _)
InsertDesc(sorted, e) ==
    IF sorted = <<>> THEN <<e>>
    ELSE IF Head(sorted).match_score >= e.match_score
         THEN <<Head(sorted)>> \o InsertDesc(Tail(sorted), e)
         ELSE <<e>> \o sorted

RECURSIVE SortDescFrom(_, _)
SortDescFrom(sorted, rest) ==
    IF rest = <<>> THEN sorted
    ELSE SortDescFrom(InsertDesc(sorted, Head(rest)), Tail(rest))

\* A variant with a plausible slip: an entry is placed before the entries
\* of equal score, so ties come out in reverse catalog order.
RECURSIVE InsertDescBeforeEqual(_, _)
InsertDescBeforeEqual(sorted, e) ==
    IF sorted = <<>> THEN <<e>>
    ELSE IF Head(sorted).match_score > e.match_score
         THEN <<Head(sorted)>> \o InsertDescBeforeEqual(Tail(sorted), e)
         ELSE <<e>> \o sorted

RECURSIVE SortDescUnstableFrom(_, _)
SortDescUnstableFrom(sorted, rest) ==
    IF rest = <<>> THEN sorted
    ELSE SortDescUnstableFrom(InsertDescBeforeEqual(sorted, Head(rest)),
                              Tail(rest))

SortReversingTies(careers) == SortDescUnstableFrom(<<>>, careers)

SortAscending(careers) ==
    LET desc == SortDescFrom(<<>>, careers)
    IN [i \in 1..Len(desc) |-> desc[Len(desc) + 1 - i]]

SortByMatchScore(careers) == SortDescFrom(<<>>, careers)

\* A variant with a plausible slip: the catalog is a list kept between calls
\* and scored in place, so a call starts from the last call's scores.
get_sample_careers_in_place(profile) ==
    LET catalog == IF career_recommendations # <<>>
                   THEN career_recommendations ELSE all_careers
        adjusted == [i \in 1..Len(catalog) |->
                        [catalog[i] EXCEPT
                            !.match_score = AdjustScore(catalog[i], profile)]]
    IN Slice(SortByMatchScore(adjusted), 0, 6)

get_sample_careers(profile) ==
    LET adjusted == [i \in 1..Len(all_careers) |->
                        [all_careers[i] EXCEPT
                            !.match_score = AdjustScore(all_careers[i], profile)]]
    IN Slice(SortByMatchScore(adjusted), 0, 6)

\* A variant with a plausible slip: the placeholder returns the catalog as
\* it is, unscored.
client_get_career_recommendations_unscored(profile) == all_careers

\* GeminiClient.get_career_recommendations: the placeholder returns the
\* sample careers.
client_get_career_recommendations(profile) == get_sample_careers(profile)

\* A variant with a plausible slip: a list already stored is kept.
TryGetCareerRecommendationsKeepOld(profile, raised) ==
    IF career_recommendations # <<>> THEN career_recommendations
    ELSE get_sample_careers(profile)

\* The handlers' try/except around GeminiClient() and the call; raised: the
\* constructor or the method raised an exception.
TryGetCareerRecommendations(profile, raised) ==
    IF raised THEN get_sample_careers(profile)
    ELSE client_get_career_recommendations(profile)

(***************************************************************************)
(* The scorer on arbitrary profiles.  Only technical_skills and interests  *)
(* are read by get_sample_careers; they are drawn from lists over strings  *)
(* that match a catalog string exactly, match it only after lower-casing,  *)
(* or match nothing.                                                       *)
(***************************************************************************)
SkillInputs == {"programming", "Data Structures", "PYTHON",
                "Programming (Python)", "Data Analysis", "Machine Learning"}
InterestInputs == {"Technology", "TECHNOLOGY", "Business & Management",
                   "Healthcare"}

NoView == [page |-> "none"]

ScorerInit ==
    /\ student_profile \in
          {[StudentProfile EXCEPT !.technical_skills = t, !.interests = n] :
              t \in SeqsUpTo(SkillInputs, MaxSkills),
              n \in SeqsUpTo(InterestInputs, MaxInterests)}
    /\ career_recommendations = <<>>
    /\ skills_analysis = <<>>
    /\ learning_roadmap = <<>>
    /\ current_page = "Career Recommendations"
    /\ selected_career_for_analysis = None
    /\ selected_career_for_roadmap = None
    /\ view = NoView

\* recommendations = get_sample_careers(profile), stored as the handlers do.
CallGetSampleCareers ==
    /\ career_recommendations = <<>>
    /\ career_recommendations' = get_sample_careers(student_profile)
    /\ UNCHANGED <<student_profile, skills_analysis, learning_roadmap,
                   current_page, selected_career_for_analysis,
                   selected_career_for_roadmap, view>>

ScorerNext == CallGetSampleCareers

SpecScorer == ScorerInit /\ [][ScorerNext]_vars

(***************************************************************************)
(* Claims about the scorer.                                                *)
(***************************************************************************)
BaseScoreOf(title) ==
    (CHOOSE c \in Range(all_careers) : c.title = title).match_score

\* k: the distinct required skills equal to some technical skill after
\* lower-casing both sides.
OverlapCount(career, profile) ==
    Cardinality({s \in Range(career.required_skills) :
                    \E t \in Range(profile.technical_skills) :
                        Lower(s) = Lower(t)})

\* b: 10 when the category equals some interest after lower-casing.
CategoryBonus(career, profile) ==
    IF \E n \in Range(profile.interests) : Lower(n) = Lower(career.category)
    THEN 10 ELSE 0

\* C1: every catalog entry is returned with the adjusted score
\* min(100, base + 5*k + b); with no technical skills and no interests the
\* adjusted score is the base score.
C1_AdjustedScore ==
    career_recommendations # <<>> =>
        \A c \in Range(all_careers) :
            \E j \in 1..Len(career_recommendations) :
                /\ career_recommendations[j].title = c.title
                /\ career_recommendations[j].match_score =
                      Min(100, c.match_score
                               + 5 * OverlapCount(c, student_profile)
                               + CategoryBonus(c, student_profile))
                /\ (student_profile.technical_skills = <<>>
                    /\ student_profile.interests = <<>>)
                   => career_recommendations[j].match_score = c.match_score

\* A skill and an interest that match only after lower-casing both earn
\* their bonus: Data Scientist 80 + 5 + 10.
C1_Witness ==
    /\ student_profile.technical_skills = <<"PYTHON">>
    /\ student_profile.interests = <<"TECHNOLOGY">>
    /\ \E j \in 1..Len(career_recommendations) :
          /\ career_recommendations[j].title = "Data Scientist"
          /\ career_recommendations[j].match_score = 95

\* C2: every returned entry has a match_score in 0..100.
C2_ScoreInRange ==
    \A j \in 1..Len(career_recommendations) :
        career_recommendations[j].match_score \in 0..100

\* Software Engineer with two matching skills and the category bonus:
\* 85 + 10 + 10 = 105 is clamped to 100.
C2_Witness ==
    /\ Range(student_profile.technical_skills) =
          {"programming", "Data Structures"}
    /\ student_profile.interests = <<"Technology">>
    /\ career_recommendations # <<>>
    /\ career_recommendations[1].title = "Software Engineer"
    /\ career_recommendations[1].match_score = 100

\* C3: the returned sequence has length min(6, catalog size), holds each
\* catalog entry at most once and is sorted non-increasing by score.
C3_LengthAndOrder ==
    career_recommendations # <<>> =>
        /\ Len(career_recommendations) = Min(6, Len(all_careers))
        /\ Len(career_recommendations) = 5
        /\ \A i, j \in 1..Len(career_recommendations) :
              i < j =>
                 /\ career_recommendations[i].title
                       # career_recommendations[j].title
                 /\ career_recommendations[i].match_score
                       >= career_recommendations[j].match_score
        /\ \A j \in 1..Len(career_recommendations) :
              \E c \in Range(all_careers) :
                 c.title = career_recommendations[j].title

\* The bonuses reorder the catalog: Data Scientist overtakes Software
\* Engineer.
C3_Witness ==
    /\ career_recommendations # <<>>
    /\ career_recommendations[1].title = "Data Scientist"
    /\ career_recommendations[2].title = "Software Engineer"
    /\ career_recommendations[1].match_score
          > career_recommendations[2].match_score

(***************************************************************************)
(* Floats.  a / b is the exact fraction, or ZeroDivisionError.             *)
(***************************************************************************)
ZeroDivisionError == [error |-> "ZeroDivisionError"]

Frac(n, d) == [num |-> n, den |-> d]

TrueDiv(a, b) == IF b = 0 THEN ZeroDivisionError ELSE Frac(a, b)

FracTimes(f, k) ==
    IF f = ZeroDivisionError THEN f ELSE Frac(f.num * k, f.den)

FracEq(f, g) == f.num * g.den = g.num * f.den
FracLt(f, g) == f.num * g.den < g.num * f.den
FracLe(f, g) == f.num * g.den <= g.num * f.den

\* f"{x:.0f}": the nearest integer, a tie going to the even one.
FormatRounded(f) ==
    LET q == f.num \div f.den
        r == f.num % f.den
        n == IF 2 * r < f.den THEN q
             ELSE IF 2 * r > f.den THEN q + 1
             ELSE IF q % 2 = 0 THEN q ELSE q + 1
    IN ToString(n)

(***************************************************************************)
(* The Skills Analysis page: render_skills_analysis and                    *)
(* generate_fallback_skills_analysis.                                      *)
(***************************************************************************)
\* f"{rec.get('title')} ({rec.get('match_score'):.0f}% match)"
CareerLabel(rec) ==
    rec.title \o " (" \o FormatRounded(Frac(rec.match_score, 1)) \o "% match)"

CareerOptions(recs) == [i \in 1..Len(recs) |-> CareerLabel(recs[i])]

\* list.index(x), 0-based; -1 stands for the ValueError of a missing x.
ListIndex(xs, x) ==
    IF \E i \in 1..Len(xs) : xs[i] = x
    THEN (CHOOSE i \in 1..Len(xs) :
              xs[i] = x /\ \A j \in 1..(i - 1) : xs[j] # x) - 1
    ELSE -1

\* A variant with a plausible slip: a failed lookup selects the last option.
DefaultIndexLastOnFailure(selected_career, career_options) ==
    IF selected_career # None
    THEN LET idx == ListIndex(career_options, CareerLabel(selected_career[1]))
         IN IF idx = -1 THEN Len(career_options) - 1 ELSE idx
    ELSE 0

\* The selectbox's default index: the cached career's label if it is still
\* an option, else 0.
DefaultIndex(selected_career, career_options) ==
    IF selected_career # None
    THEN LET idx == ListIndex(career_options, CareerLabel(selected_career[1]))
         IN IF idx = -1 THEN 0 ELSE idx
    ELSE 0

generate_fallback_skills_analysis(profile, career_data) ==
    LET current_skills == Range(profile.current_skills)
        required_skills == Range(career_data.required_skills)
        matching == current_skills \cap required_skills
        missing == required_skills \ current_skills
    IN [gap_analysis |-> [have |-> Cardinality(matching),
                          out_of |-> Cardinality(required_skills),
                          to_develop |-> Cardinality(missing)],
        recommendations |-> "Immediate Actions"]

\* GeminiClient.analyze_skills_gap: the placeholder returns the fallback.
client_analyze_skills_gap(profile, career_data) ==
    generate_fallback_skills_analysis(profile, career_data)

\* try: client.analyze_skills_gap  except: the fallback analysis.
TryAnalyzeSkillsGap(profile, career_data, raised) ==
    IF raised THEN generate_fallback_skills_analysis(profile, career_data)
    ELSE client_analyze_skills_gap(profile, career_data)

\* Variants with a plausible slip.
ShowGapWhenCurrent(current_skills, required_skills) == current_skills # <<>>

SkillsGapDiffExtraIsCurrent(current_skills, required_skills) ==
    LET current_set == Range(current_skills)
        required_set == Range(required_skills)
    IN [matching_skills |-> current_set \cap required_set,
        missing_skills |-> required_set \ current_set,
        extra_skills |-> current_set]

SkillsGapDiffIgnoringCase(current_skills, required_skills) ==
    LET current_set == Range(current_skills)
        required_set == Range(required_skills)
        held(r) == \E c \in current_set : Lower(c) = Lower(r)
        needed(c) == \E r \in required_set : Lower(c) = Lower(r)
    IN [matching_skills |-> {c \in current_set : needed(c)},
        missing_skills |-> {r \in required_set : ~held(r)},
        extra_skills |-> {c \in current_set : ~needed(c)}]

\* if current_skills and required_skills:
ShowGap(current_skills, required_skills) ==
    current_skills # <<>> /\ required_skills # <<>>

\* matching_skills, missing_skills, extra_skills (lists made from sets).
SkillsGapDiff(current_skills, required_skills) ==
    LET current_set == Range(current_skills)
        required_set == Range(required_skills)
    IN [matching_skills |-> current_set \cap required_set,
        missing_skills |-> required_set \ current_set,
        extra_skills |-> current_set \ required_set]

\* (len(matching_skills) / len(required_skills) * 100) if required_skills
\* else 0, with required_skills the career's list.
MatchPercentage(matching_skills, required_skills) ==
    IF required_skills # <<>>
    THEN FracTimes(TrueDiv(Cardinality(matching_skills), Len(required_skills)),
                   100)
    ELSE Frac(0, 1)

\* What the page shows once an analysis is stored.
SkillsGapView(current_skills, required_skills) ==
    IF ShowGap(current_skills, required_skills)
    THEN LET d == SkillsGapDiff(current_skills, required_skills)
             pct == MatchPercentage(d.matching_skills, required_skills)
         IN Some([matching_skills |-> d.matching_skills,
                  missing_skills |-> d.missing_skills,
                  extra_skills |-> d.extra_skills,
                  skills_match |-> Cardinality(d.matching_skills),
                  skills_to_learn |-> Cardinality(d.missing_skills),
                  extra_count |-> Cardinality(d.extra_skills),
                  match_percentage |-> pct,
                  match_percentage_label |->
                      IF pct = ZeroDivisionError THEN "ZeroDivisionError"
                      ELSE FormatRounded(pct) \o "%"])
    ELSE None

SkillsButtons == {"none", "analyze", "create_roadmap", "market_insights",
                  "back_to_recommendations"}

\* st.rerun() was called: the script runs again before any new input.
RerunPending == "rerun" \in DOMAIN view /\ view.rerun

\* One run of render_skills_analysis.  sel is the 0-based index of the
\* option the selectbox returns, press the button pressed in this run.
render_skills_analysis(sel, press) ==
    LET profile == student_profile
        selected_career == selected_career_for_analysis
    IN
    IF career_recommendations # <<>>
    THEN
        \E raised \in BOOLEAN :
        LET career_options == CareerOptions(career_recommendations)
            default_index == DefaultIndex(selected_career, career_options)
            selected_index == ListIndex(career_options, career_options[sel + 1])
            career_data == career_recommendations[selected_index + 1]
            analysis == IF press = "analyze"
                        THEN TryAnalyzeSkillsGap(profile, career_data, raised)
                        ELSE skills_analysis
            shown == analysis # <<>>
        IN
        /\ sel \in 0..(Len(career_options) - 1)
        /\ press \in SkillsButtons
        /\ raised => press = "analyze"
        /\ press \in {"create_roadmap", "market_insights",
                      "back_to_recommendations"} => shown
        /\ skills_analysis' = analysis
        /\ view' = [page |-> "Skills Analysis",
                    default_index |-> default_index,
                    career |-> career_data,
                    requested |-> press = "analyze",
                    error |-> raised,
                    analysis_shown |-> shown,
                    gap |-> IF shown
                            THEN SkillsGapView(profile.current_skills,
                                               career_data.required_skills)
                            ELSE None,
                    rerun |-> press \in {"create_roadmap", "market_insights",
                                         "back_to_recommendations"}]
        /\ selected_career_for_roadmap' =
              IF press = "create_roadmap" THEN Some(career_data)
              ELSE selected_career_for_roadmap
        /\ current_page' =
              CASE press = "create_roadmap" -> "Learning Roadmap"
                [] press = "market_insights" -> "Job Market Insights"
                [] press = "back_to_recommendations" -> "Career Recommendations"
                [] OTHER -> current_page
        /\ UNCHANGED <<student_profile, career_recommendations,
                       learning_roadmap, selected_career_for_analysis>>
    ELSE
        /\ sel = 0
        /\ press \in {"none", "get_recommendations"}
        /\ current_page' = IF press = "get_recommendations"
                           THEN "Career Recommendations" ELSE current_page
        /\ view' = [page |-> "Skills Analysis", warning |-> TRUE,
                    rerun |-> press = "get_recommendations"]
        /\ UNCHANGED <<student_profile, career_recommendations,
                       skills_analysis, learning_roadmap,
                       selected_career_for_analysis,
                       selected_career_for_roadmap>>

(***************************************************************************)
(* The skills-gap diff on arbitrary current and required skill lists: the  *)
(* page is run on a profile and a recommended career drawn from bounded    *)
(* lists, repetitions and the empty list included.                         *)
(***************************************************************************)
DiffSkillInputs == {"Programming", "Statistics", "Data Analysis", "programming"}

DiffInit ==
    /\ student_profile \in
          {[StudentProfile EXCEPT !.current_skills = c] :
              c \in SeqsUpTo(DiffSkillInputs, MaxSkills)}
    /\ career_recommendations \in
          {<<[title |-> "Data Analyst", category |-> "Technology",
              match_score |-> 80, required_skills |-> r]>> :
              r \in SeqsUpTo(DiffSkillInputs, MaxRequired)}
    /\ skills_analysis = <<>>
    /\ learning_roadmap = <<>>
    /\ current_page = "Skills Analysis"
    /\ selected_career_for_analysis = None
    /\ selected_career_for_roadmap = None
    /\ view = NoView

DiffAnalyze ==
    /\ current_page = "Skills Analysis"
    /\ render_skills_analysis(0, "analyze")

DiffNext == DiffAnalyze

SpecDiff == DiffInit /\ [][DiffNext]_vars

(***************************************************************************)
(* Claims about the skills-gap diff.                                       *)
(***************************************************************************)
OnSkillsPage == view.page = "Skills Analysis" /\ "gap" \in DOMAIN view

GapShown == OnSkillsPage /\ view.gap # None

\* C4: matched, missing and extra partition current and required:
\* matched + missing = required, matched + extra = current, the three are
\* pairwise disjoint; the stored fallback analysis counts the same sets.
C4_DiffPartition ==
    /\ GapShown =>
          LET g == view.gap[1]
              current == Range(student_profile.current_skills)
              required == Range(view.career.required_skills)
          IN /\ g.matching_skills \cup g.missing_skills = required
             /\ g.matching_skills \cup g.extra_skills = current
             /\ g.matching_skills \cap g.missing_skills = {}
             /\ g.matching_skills \cap g.extra_skills = {}
             /\ g.missing_skills \cap g.extra_skills = {}
             /\ g.matching_skills = current \cap required
             /\ g.missing_skills = required \ current
             /\ g.extra_skills = current \ required
    /\ (OnSkillsPage /\ skills_analysis # <<>>) =>
          LET a == skills_analysis.gap_analysis
              current == Range(student_profile.current_skills)
              required == Range(view.career.required_skills)
          IN /\ a.have = Cardinality(current \cap required)
             /\ a.to_develop = Cardinality(required \ current)
             /\ a.have + a.to_develop = a.out_of

\* A diff in which none of the three sets is empty.
C4_Witness ==
    /\ GapShown
    /\ view.gap[1].matching_skills # {}
    /\ view.gap[1].missing_skills # {}
    /\ view.gap[1].extra_skills # {}

C5_Scenario ==
    (/\ OnSkillsPage
     /\ student_profile.current_skills = <<"Programming">>
     /\ view.career.required_skills =
           <<"Programming", "Statistics", "Data Analysis">>)
    => /\ GapShown
       /\ view.gap[1].missing_skills = {"Statistics", "Data Analysis"}
       /\ view.gap[1].match_percentage_label = "33%"

TimeframePlanNoTwoYears(timeframe) ==
    CASE timeframe = "6 months" -> [num_phases |-> 3, phase_duration |-> "2 months"]
      [] timeframe = "1 year" -> [num_phases |-> 4, phase_duration |-> "3 months"]
      [] OTHER -> [num_phases |-> 8, phase_duration |-> "4-5 months"]

\* The if/elif chain on timeframe: num_phases and phase_duration.
TimeframePlan(timeframe) ==
    CASE timeframe = "6 months" -> [num_phases |-> 3, phase_duration |-> "2 months"]
      [] timeframe = "1 year" -> [num_phases |-> 4, phase_duration |-> "3 months"]
      [] timeframe = "2 years" -> [num_phases |-> 6, phase_duration |-> "4 months"]
      [] OTHER -> [num_phases |-> 8, phase_duration |-> "4-5 months"]

\* A variant with a plausible slip: technical skills count as skills held.
SkillsToLearnBesidesTechnical(profile, career_data) ==
    LET current_skills == Range(profile.current_skills)
                          \cup Range(profile.technical_skills)
    IN SelectSeq(career_data.required_skills,
                 LAMBDA skill : skill \notin current_skills)

\* [skill for skill in required_skills if skill not in current_skills]
SkillsToLearn(profile, career_data) ==
    LET current_skills == Range(profile.current_skills)
    IN SelectSeq(career_data.required_skills,
                 LAMBDA skill : skill \notin current_skills)

\* A variant with a plausible slip: the chunk size is rounded up.
SkillsPerPhaseCeiling(skills_to_learn, num_phases) ==
    IF skills_to_learn # <<>>
    THEN Max(1, (Len(skills_to_learn) + num_phases - 1) \div num_phases)
    ELSE 1

\* max(1, len(skills_to_learn) // num_phases) if skills_to_learn else 1
SkillsPerPhase(skills_to_learn, num_phases) ==
    IF skills_to_learn # <<>>
    THEN Max(1, Len(skills_to_learn) \div num_phases)
    ELSE 1

\* skills_to_learn[start_idx:end_idx] of the loop's iteration i.
PhaseSkills(skills_to_learn, skills_per_phase, i) ==
    LET start_idx == i * skills_per_phase
        end_idx == Min((i + 1) * skills_per_phase, Len(skills_to_learn))
    IN IF skills_to_learn # <<>>
       THEN Slice(skills_to_learn, start_idx, end_idx)
       ELSE <<>>

\* A variant with a plausible slip: interior phases are numbered from one.
PhaseTitleOneBased(i, num_phases) ==
    IF i = 0 THEN "Foundation Building"
    ELSE IF i = num_phases - 1 THEN "Advanced Skills & Specialization"
    ELSE "Skill Development Phase " \o ToString(i + 1)

\* The if/elif/else on the loop index i that picks the phase's title.
PhaseTitle(i, num_phases) ==
    IF i = 0 THEN "Foundation Building"
    ELSE IF i = num_phases - 1 THEN "Advanced Skills & Specialization"
    ELSE "Skill Development Phase " \o ToString(i)

PhaseObjective(i, num_phases) ==
    IF i = 0 THEN "Build fundamental skills and knowledge base"
    ELSE IF i = num_phases - 1
         THEN "Master advanced concepts and specialize in your chosen area"
    ELSE "Develop intermediate skills and practical experience"

RoadmapActivities ==
    <<"Online courses and tutorials", "Hands-on projects",
      "Practice and application", "Community participation">>

RoadmapResources ==
    [online_platforms |-> <<"Coursera", "Udemy", "YouTube", "freeCodeCamp">>,
     practice_platforms |-> <<"GitHub", "Kaggle", "HackerRank", "LeetCode">>,
     communities |-> <<"Reddit", "Discord", "LinkedIn", "Stack Overflow">>]

generate_fallback_roadmap(profile, career_data, timeframe) ==
    LET skills_to_learn == SkillsToLearn(profile, career_data)
        plan == TimeframePlan(timeframe)
        num_phases == plan.num_phases
        skills_per_phase == SkillsPerPhase(skills_to_learn, num_phases)
        phase(i) ==
            LET phase_skills == PhaseSkills(skills_to_learn, skills_per_phase, i)
            IN [title |-> PhaseTitle(i, num_phases),
                duration |-> plan.phase_duration,
                objective |-> PhaseObjective(i, num_phases),
                skills_to_learn |-> phase_skills,
                activities |-> RoadmapActivities,
                milestones |->
                    <<"Complete " \o ToString(Len(phase_skills))
                         \o " skill modules",
                      "Build 1-2 practical projects",
                      "Join relevant communities",
                      "Update portfolio/resume">>]
    IN [overview |-> [timeframe |-> timeframe, title |-> career_data.title,
                      num_phases |-> num_phases],
        phases |-> [k \in 1..num_phases |-> phase(k - 1)],
        resources |-> RoadmapResources]

\* A variant with a plausible slip: a light intensity stretches the plan
\* to the longest timeframe.
client_generate_learning_roadmap_by_intensity(profile, career_data, timeframe, intensity) ==
    generate_fallback_roadmap(profile, career_data,
                              IF intensity = "Light (5-10 hrs/week)"
                              THEN "3 years" ELSE timeframe)

\* GeminiClient.generate_learning_roadmap: the placeholder returns the
\* fallback roadmap; intensity appears only in the unused prompt.
client_generate_learning_roadmap(profile, career_data, timeframe, intensity) ==
    generate_fallback_roadmap(profile, career_data, timeframe)

\* A variant with a plausible slip: the exception is reported and nothing
\* is substituted.
TryGenerateLearningRoadmapNoFallback(profile, career_data, timeframe, intensity, raised) ==
    IF raised THEN <<>>
    ELSE client_generate_learning_roadmap(profile, career_data, timeframe,
                                          intensity)

\* try: client.generate_learning_roadmap  except: the fallback roadmap.
TryGenerateLearningRoadmap(profile, career_data, timeframe, intensity, raised) ==
    IF raised THEN generate_fallback_roadmap(profile, career_data, timeframe)
    ELSE client_generate_learning_roadmap(profile, career_data, timeframe,
                                          intensity)

(***************************************************************************)
(* The roadmap generator on arbitrary inputs: a profile with drawn current *)
(* skills, a career of the catalog or one with a drawn required_skills     *)
(* list (empty, repeated entries), and any timeframe string.               *)
(***************************************************************************)
TimeframeOptions == {"6 months", "1 year", "2 years", "3 years"}
TimeframeInputs == TimeframeOptions \cup {"18 months", ""}

RoadmapCurrentInputs == {"Programming", "Data Structures", "statistics"}
RoadmapRequiredInputs == {"Programming", "Statistics"}

\* A career with enough required skills for phases of two skills.
LongCareer ==
    [title |-> "Full Stack Developer", category |-> "Technology",
     match_score |-> 80,
     required_skills |-> <<"Programming", "Data Structures", "HTML", "CSS",
                           "JavaScript", "SQL", "Git">>]

RoadmapCareers ==
    Range(all_careers) \cup {LongCareer} \cup
    {[title |-> "Data Analyst", category |-> "Technology", match_score |-> 80,
      required_skills |-> r] :
        r \in SeqsUpTo(RoadmapRequiredInputs, MaxRequired)}

RoadmapTechnicalInputs == {<<>>, <<"Statistics">>}

RoadmapInit ==
    /\ student_profile \in
          {[StudentProfile EXCEPT !.current_skills = c,
                                  !.technical_skills = t] :
              c \in SeqsUpTo(RoadmapCurrentInputs, MaxSkills),
              t \in RoadmapTechnicalInputs}
    /\ career_recommendations \in {<<c>> : c \in RoadmapCareers}
    /\ skills_analysis = <<>>
    /\ learning_roadmap = <<>>
    /\ current_page = "Learning Roadmap"
    /\ selected_career_for_analysis = None
    /\ selected_career_for_roadmap = None
    /\ view = NoView

\* roadmap = generate_fallback_roadmap(profile, career_data, timeframe),
\* stored as the page does.
CallGenerateFallbackRoadmap ==
    /\ learning_roadmap = <<>>
    /\ \E timeframe \in TimeframeInputs :
          /\ learning_roadmap' =
                generate_fallback_roadmap(student_profile,
                                          career_recommendations[1], timeframe)
          /\ view' = [page |-> "Learning Roadmap",
                      career |-> career_recommendations[1],
                      timeframe |-> timeframe]
    /\ UNCHANGED <<student_profile, career_recommendations, skills_analysis,
                   current_page, selected_career_for_analysis,
                   selected_career_for_roadmap>>

RoadmapNext == CallGenerateFallbackRoadmap

SpecRoadmap == RoadmapInit /\ [][RoadmapNext]_vars

(***************************************************************************)
(* Claims about the roadmap generator.                                     *)
(***************************************************************************)
RoadmapBuilt == learning_roadmap # <<>> /\ view.page = "Learning Roadmap"

\* C7: the roadmap has exactly phase_count phases, all with the same
\* duration label: (3, "2 months") for "6 months", (4, "3 months") for
\* "1 year", (6, "4 months") for "2 years", (8, "4-5 months") otherwise,
\* also for a career without required skills and a profile without skills.
C7_PhaseCountAndDuration ==
    RoadmapBuilt =>
        LET tf == view.timeframe
            count == IF tf = "6 months" THEN 3 ELSE IF tf = "1 year" THEN 4
                     ELSE IF tf = "2 years" THEN 6 ELSE 8
            label == IF tf = "6 months" THEN "2 months"
                     ELSE IF tf = "1 year" THEN "3 months"
                     ELSE IF tf = "2 years" THEN "4 months" ELSE "4-5 months"
        IN /\ DOMAIN learning_roadmap = {"overview", "phases", "resources"}
           /\ Len(learning_roadmap.phases) = count
           /\ learning_roadmap.overview.num_phases = count
           /\ \A i \in 1..count : learning_roadmap.phases[i].duration = label

\* A roadmap for an unlisted timeframe, a career without required skills
\* and a profile without current skills.
C7_Witness ==
    /\ RoadmapBuilt
    /\ view.timeframe = "18 months"
    /\ view.career.required_skills = <<>>
    /\ student_profile.current_skills = <<>>
    /\ Len(learning_roadmap.phases) = 8

RECURSIVE ConcatPhaseSkills(_)
ConcatPhaseSkills(phases) ==
    IF phases = <<>> THEN <<>>
    ELSE Head(phases).skills_to_learn \o ConcatPhaseSkills(Tail(phases))

\* C8: the phases' skills_to_learn lists, concatenated in phase order, are
\* exactly the skills the profile still has to learn for the career.
C8_PhasesCoverAllSkills ==
    RoadmapBuilt =>
        ConcatPhaseSkills(learning_roadmap.phases) =
            SelectSeq(view.career.required_skills,
                      LAMBDA s : s \notin Range(student_profile.current_skills))

(***************************************************************************)
(* StudentProfile.get_completion_percentage.                               *)
(***************************************************************************)
\* str.strip() on the strings of the model with surrounding white space.
StripTable ==
    ("  " :> "") @@ (" Asha " :> "Asha") @@ (" Statistics " :> "Statistics")

Strip(s) == IF s \in DOMAIN StripTable THEN StripTable[s] ELSE s

\* Truth value of an Optional[str] / Optional[int].
StrTruthy(opt) == opt # None /\ opt[1] # ""
IntTruthy(opt) == opt # None /\ opt[1] # 0

ValueError == [error |-> "ValueError"]

\* float(s) for the strings of the model; the others are not numbers.
FloatTable ==
    ("0.0" :> Frac(0, 10)) @@ ("0.1" :> Frac(1, 10)) @@
    ("75.5" :> Frac(755, 10)) @@ ("100.0" :> Frac(1000, 10))

ParseFloat(s) == IF s \in DOMAIN FloatTable THEN FloatTable[s] ELSE ValueError

total_fields == 18

\* A variant with a plausible slip: the sentinel option counts as a location.
LocationCompletedAnyChoice(self) == StrTruthy(self.location)

\* if self.location and self.location != "Select State":
LocationCompleted(self) ==
    StrTruthy(self.location) /\ self.location[1] # "Select State"

\* float(self.academic_performance or 0) raises ValueError when the
\* string, tested only if it is non-empty, is not a number.
AcademicPerformanceRaises(self) ==
    /\ StrTruthy(self.academic_performance)
    /\ ParseFloat(self.academic_performance[1]) = ValueError

\* if self.academic_performance and float(self.academic_performance or 0) > 0:
AcademicPerformanceCompleted(self) ==
    /\ StrTruthy(self.academic_performance)
    /\ ~AcademicPerformanceRaises(self)
    /\ FracLt(Frac(0, 1), ParseFloat(self.academic_performance[1]))

\* The 18 tests of the method, in its order.
CompletedFlags(self) ==
    << StrTruthy(self.name) /\ Strip(self.name[1]) # "",
       IntTruthy(self.age) /\ self.age[1] > 0,
       StrTruthy(self.email) /\ Strip(self.email[1]) # "",
       LocationCompleted(self),
       self.languages # <<>>,
       StrTruthy(self.education_level),
       StrTruthy(self.stream),
       StrTruthy(self.institution) /\ Strip(self.institution[1]) # "",
       AcademicPerformanceCompleted(self),
       self.subjects # <<>>,
       self.current_skills # <<>>,
       self.technical_skills # <<>>,
       self.interests # <<>>,
       self.personality_traits # <<>>,
       self.work_environment # <<>>,
       StrTruthy(self.salary_expectations),
       self.job_type_preference # <<>>,
       StrTruthy(self.career_goals) /\ Strip(self.career_goals[1]) # "" >>

RECURSIVE CountTrue(_)
CountTrue(flags) ==
    IF flags = <<>> THEN 0
    ELSE (IF Head(flags) THEN 1 ELSE 0) + CountTrue(Tail(flags))

\* (completed_fields / total_fields) * 100, or the ValueError of float().
get_completion_percentage(self) ==
    IF AcademicPerformanceRaises(self) THEN ValueError
    ELSE FracTimes(TrueDiv(CountTrue(CompletedFlags(self)), total_fields), 100)

(***************************************************************************)
(* The completion percentage on profiles around the empty and the fully    *)
(* populated profile: up to MaxEdits fields are set to a drawn value.      *)
(***************************************************************************)
FullProfile ==
    [name |-> Some("Asha"), age |-> Some(18), email |-> Some("asha@example.in"),
     phone |-> Some("9800000000"), location |-> Some("Delhi"),
     languages |-> <<"Hindi">>,
     education_level |-> Some("Undergraduate"), stream |-> Some("Engineering"),
     institution |-> Some("IIT Delhi"),
     academic_performance |-> Some("75.5"), subjects |-> <<"Physics">>,
     current_skills |-> <<"Programming">>,
     technical_skills |-> <<"Data Analysis">>, interests |-> <<"Technology">>,
     personality_traits |-> <<"Analytical">>,
     work_environment |-> <<"Hybrid">>, salary_expectations |-> Some("3-6 LPA"),
     job_type_preference |-> <<"Full-time">>,
     location_preference |-> <<"Same city">>,
     career_goals |-> Some("Lead a team")]

TextValues == {None, Some(""), Some("  "), Some("Asha")}

FieldValues ==
    [name |-> TextValues,
     age |-> {None, Some(0), Some(-1), Some(18)},
     email |-> {None, Some(""), Some("asha@example.in")},
     phone |-> {None, Some("9800000000")},
     location |-> {None, Some(""), Some("Select State"), Some("Delhi")},
     languages |-> {<<>>, <<"Hindi">>},
     education_level |-> {None, Some("Undergraduate")},
     stream |-> {None, Some("Engineering")},
     institution |-> TextValues,
     academic_performance |-> {None, Some("0.0"), Some("0.1"), Some("100.0")},
     subjects |-> {<<>>, <<"Physics">>},
     current_skills |-> {<<>>, <<"Programming">>},
     technical_skills |-> {<<>>, <<"Data Analysis">>},
     interests |-> {<<>>, <<"Technology">>},
     personality_traits |-> {<<>>, <<"Analytical">>},
     work_environment |-> {<<>>, <<"Hybrid">>},
     salary_expectations |-> {None, Some("3-6 LPA")},
     job_type_preference |-> {<<>>, <<"Full-time">>},
     location_preference |-> {<<>>, <<"Same city">>},
     career_goals |-> TextValues]

FieldNames == DOMAIN FieldValues

\* profile with one field set to one of its values.
OneEdit(profile) ==
    UNION {{[profile EXCEPT ![f] = v] : v \in FieldValues[f]} : f \in FieldNames}

RECURSIVE ProfilesWithin(_, _)
ProfilesWithin(profiles, n) ==
    IF n = 0 THEN profiles
    ELSE ProfilesWithin(profiles \cup UNION {OneEdit(p) : p \in profiles},
                        n - 1)

CompletionInit ==
    /\ student_profile \in ProfilesWithin({StudentProfile, FullProfile}, MaxEdits)
    /\ career_recommendations = <<>>
    /\ skills_analysis = <<>>
    /\ learning_roadmap = <<>>
    /\ current_page = "Dashboard"
    /\ selected_career_for_analysis = None
    /\ selected_career_for_roadmap = None
    /\ view = NoView

\* completion = profile.get_completion_percentage(), shown in the sidebar.
CallGetCompletionPercentage ==
    /\ view = NoView
    /\ view' = [page |-> "sidebar",
                completion |-> get_completion_percentage(student_profile)]
    /\ UNCHANGED <<student_profile, career_recommendations, skills_analysis,
                   learning_roadmap, current_page,
                   selected_career_for_analysis, selected_career_for_roadmap>>

CompletionNext == CallGetCompletionPercentage

SpecCompletion == CompletionInit /\ [][CompletionNext]_vars

(***************************************************************************)
(* Claims about the completion percentage.                                 *)
(***************************************************************************)
DesignatedFields ==
    {"name", "age", "email", "location", "languages", "education_level",
     "stream", "institution", "academic_performance", "subjects",
     "current_skills", "technical_skills", "interests", "personality_traits",
     "work_environment", "salary_expectations", "job_type_preference",
     "career_goals"}

BlankStrings == {"", "  "}

\* The presence rule of C9 for one designated field.
Populated(p, f) ==
    CASE f \in {"name", "email", "institution", "career_goals",
                "education_level", "stream", "salary_expectations"} ->
            p[f] # None /\ p[f][1] \notin BlankStrings
      [] f = "age" -> p.age # None /\ p.age[1] > 0
      [] f = "location" ->
            p.location # None /\ p.location[1] \notin {"", "Select State"}
      [] f = "academic_performance" ->
            /\ p.academic_performance # None
            /\ p.academic_performance[1] \in DOMAIN FloatTable
            /\ FloatTable[p.academic_performance[1]].num > 0
      [] OTHER -> p[f] # <<>>

PopulatedCount(p) == Cardinality({f \in DesignatedFields : Populated(p, f)})

\* C9: the completion percentage is 100 * c / 18 with c the populated
\* fields among the 18 designated ones (phone and location_preference
\* never count): 0 for the empty profile, 100 when all 18 are populated,
\* always within 0..100.
C9_CompletionPercentage ==
    view.page = "sidebar" =>
        /\ view.completion # ValueError
        /\ view.completion # ZeroDivisionError
        /\ Cardinality(DesignatedFields) = 18
        /\ FracEq(view.completion,
                  Frac(100 * PopulatedCount(student_profile), 18))
        /\ student_profile = StudentProfile
              => FracEq(view.completion, Frac(0, 1))
        /\ PopulatedCount(student_profile) = 18
              => FracEq(view.completion, Frac(100, 1))
        /\ FracLe(Frac(0, 1), view.completion)
        /\ FracLe(view.completion, Frac(100, 1))

\* All 18 designated fields populated, phone and location_preference not:
\* the percentage is 100.
C9_Witness ==
    /\ view.page = "sidebar"
    /\ student_profile.phone = None
    /\ student_profile.location_preference = <<>>
    /\ PopulatedCount(student_profile) = 18
    /\ FracEq(view.completion, Frac(100, 1))

(***************************************************************************)
(* The Profile Builder page: render_profile_builder.                       *)
(*                                                                         *)
(* A text area's content is kept as the list of its lines, text.split of   *)
(* the newline: the empty text is the one empty line <<"">>.  In one run   *)
(* of the page at most one widget returns a value the user has just        *)
(* entered (edit = <<widget, value>>); every other widget returns the      *)
(* value its value/index/default argument computes from the profile.       *)
(***************************************************************************)
LocationOptions ==
    <<"Select State", "Andhra Pradesh", "Karnataka", "Maharashtra",
      "Tamil Nadu", "Telangana", "West Bengal", "Delhi", "Mumbai",
      "Bangalore", "Chennai", "Hyderabad">>

EducationOptions ==
    <<"High School (Class 10)", "Senior Secondary (Class 12)",
      "Undergraduate", "Graduate", "Post Graduate", "PhD">>

StreamEducationLevels ==
    {"Senior Secondary (Class 12)", "Undergraduate", "Graduate",
     "Post Graduate"}

StreamOptions ==
    <<"Science (PCM)", "Science (PCB)", "Commerce", "Arts/Humanities",
      "Engineering", "Medicine", "Law", "Management", "Computer Science",
      "Other">>

SalaryOptions ==
    <<"Below 3 LPA", "3-6 LPA", "6-10 LPA", "10-15 LPA", "15-25 LPA",
      "Above 25 LPA">>

TechnicalSkillOptions ==
    <<"Programming (Python)", "Programming (Java)", "Programming (C++)",
      "Web Development", "Data Analysis", "Machine Learning",
      "Database Management", "Cloud Computing", "Mobile App Development",
      "UI/UX Design", "Digital Marketing", "Content Writing">>

InterestOptions ==
    <<"Technology", "Healthcare", "Education", "Finance", "Arts & Culture",
      "Sports", "Environment", "Social Work", "Business", "Research",
      "Government", "Media", "Entertainment", "Travel", "Fashion", "Food">>

\* value=profile.<field> or ""
TextOr(opt, default) == IF StrTruthy(opt) THEN opt[1] ELSE default

\* index=0 if not current else (options.index(current) if current in
\* options else 0): the option the selectbox shows by default.
SelectboxDefault(options, current) ==
    IF ~StrTruthy(current) THEN options[1]
    ELSE IF current[1] \in Range(options) THEN current[1] ELSE options[1]

\* "\n".join(items) if items else "", as the list of the text's lines.
JoinLines(items) == IF items # <<>> THEN items ELSE <<"">>

\* [s.strip() for s in text.split('\n') if s.strip()]
ParseLines(text) ==
    SelectSeq([i \in 1..Len(text) |-> Strip(text[i])], LAMBDA line : line # "")

\* A variant with a plausible slip: the value is stored as it is displayed.
StrOfFloatWithSign(x) ==
    (CHOOSE str \in DOMAIN FloatTable : FracEq(FloatTable[str], x)) \o "%"

\* str(percentage) of the number input's float.
StrOfFloat(x) == CHOOSE str \in DOMAIN FloatTable : FracEq(FloatTable[str], x)

\* The widgets' values are assigned to the profile field by field.
ProfileAfterForm(profile, edit) ==
    LET W(widget, default) ==
            IF edit # None /\ edit[1] = widget THEN edit[2] ELSE default
        education_level ==
            W("education_level",
              SelectboxDefault(EducationOptions, profile.education_level))
        percentage ==
            W("percentage",
              IF StrTruthy(profile.academic_performance)
              THEN ParseFloat(profile.academic_performance[1])
              ELSE Frac(0, 10))
        subjects == W("subjects", JoinLines(profile.subjects))
        current_skills == W("current_skills", JoinLines(profile.current_skills))
    IN [name |-> Some(W("name", TextOr(profile.name, ""))),
        age |-> Some(W("age", IF IntTruthy(profile.age)
                               THEN profile.age[1] ELSE 18)),
        location |-> Some(W("location",
                            SelectboxDefault(LocationOptions,
                                             profile.location))),
        email |-> Some(W("email", TextOr(profile.email, ""))),
        phone |-> Some(W("phone", TextOr(profile.phone, ""))),
        languages |-> W("languages", profile.languages),
        education_level |-> Some(education_level),
        stream |-> IF education_level \in StreamEducationLevels
                   THEN Some(W("stream",
                               SelectboxDefault(StreamOptions, profile.stream)))
                   ELSE profile.stream,
        institution |-> Some(W("institution", TextOr(profile.institution, ""))),
        academic_performance |-> Some(StrOfFloat(percentage)),
        subjects |-> IF subjects # <<"">> THEN ParseLines(subjects)
                     ELSE profile.subjects,
        current_skills |-> IF current_skills # <<"">>
                           THEN ParseLines(current_skills)
                           ELSE profile.current_skills,
        technical_skills |-> W("tech_skills", profile.technical_skills),
        interests |-> W("interests", profile.interests),
        personality_traits |-> W("personality", profile.personality_traits),
        work_environment |-> W("work_environment", profile.work_environment),
        salary_expectations |->
            Some(W("salary_expectations",
                   SelectboxDefault(SalaryOptions,
                                    profile.salary_expectations))),
        job_type_preference |-> W("job_type", profile.job_type_preference),
        location_preference |->
            W("location_preference", profile.location_preference),
        career_goals |-> Some(W("career_goals",
                                TextOr(profile.career_goals, "")))]

\* A multiselect after the user clicks option o: removed if selected, else
\* appended to the selection.
Toggle(selection, o) ==
    IF o \in Range(selection)
    THEN SelectSeq(selection, LAMBDA x : x # o)
    ELSE Append(selection, o)

\* The edits a user makes in the model.
TechnicalSkillChoices ==
    {"Programming (Python)", "Data Analysis", "Machine Learning"}
InterestChoices == {"Technology", "Business"}
NameChoices == {"Asha", "  "}
PercentageChoices == {Frac(0, 10), Frac(1, 10), Frac(755, 10), Frac(1000, 10)}
SkillTextChoices ==
    {<<"">>, <<"  ">>, <<"Programming", "", " Statistics ">>}

FormEdits(profile) ==
    {None}
    \cup {<<"name", v>> : v \in NameChoices}
    \cup {<<"percentage", v>> : v \in PercentageChoices}
    \cup {<<"current_skills", v>> : v \in SkillTextChoices}
    \cup {<<"tech_skills", Toggle(profile.technical_skills, o)>> :
             o \in TechnicalSkillChoices}
    \cup {<<"interests", Toggle(profile.interests, o)>> : o \in InterestChoices}

\* One run of render_profile_builder; save: the Save Profile & Generate
\* Recommendations button is pressed in this run.  The two buttons nested
\* in the save block are drawn only in that run, so a click on one of them
\* starts a run in which the save block is skipped and has no effect.
render_profile_builder(edit, save) ==
    \E raised \in BOOLEAN :
    LET profile == ProfileAfterForm(student_profile, edit)
        completion == get_completion_percentage(profile)
    IN /\ raised => save
       /\ student_profile' = profile
       /\ career_recommendations' =
             IF save THEN TryGetCareerRecommendations(profile, raised)
             ELSE career_recommendations
       /\ view' = [page |-> "Profile Builder", completion |-> completion,
                   saved |-> save, error |-> raised]
       /\ UNCHANGED <<skills_analysis, learning_roadmap, current_page,
                      selected_career_for_analysis,
                      selected_career_for_roadmap>>

(***************************************************************************)
(* A session on the Profile Builder: the user opens the page from the      *)
(* Dashboard, edits widgets and saves.                                     *)
(***************************************************************************)
\* initialize_session on a new session.
FormInit ==
    /\ student_profile = StudentProfile
    /\ career_recommendations = <<>>
    /\ skills_analysis = <<>>
    /\ learning_roadmap = <<>>
    /\ current_page = "Dashboard"
    /\ selected_career_for_analysis = None
    /\ selected_career_for_roadmap = None
    /\ view = NoView

\* The sidebar button: current_page is set and the script runs again, now
\* rendering the Profile Builder with no widget touched.
OpenProfileBuilder ==
    /\ current_page = "Dashboard"
    /\ current_page' = "Profile Builder"
    /\ student_profile' = ProfileAfterForm(student_profile, None)
    /\ view' = [page |-> "Profile Builder",
                completion |-> get_completion_percentage(student_profile'),
                saved |-> FALSE, error |-> FALSE]
    /\ UNCHANGED <<career_recommendations, skills_analysis, learning_roadmap,
                   selected_career_for_analysis, selected_career_for_roadmap>>

EditProfile ==
    /\ ~RerunPending
    /\ current_page = "Profile Builder"
    /\ \E edit \in FormEdits(student_profile) :
          render_profile_builder(edit, FALSE)

SaveProfile ==
    /\ ~RerunPending
    /\ current_page = "Profile Builder"
    /\ render_profile_builder(None, TRUE)

FormNext == OpenProfileBuilder \/ EditProfile \/ SaveProfile

SpecForm == FormInit /\ [][FormNext]_vars

(***************************************************************************)
(* The Career Recommendations page: render_career_recommendations.         *)
(***************************************************************************)
\* filtered_recs: the recommendations in the selected categories with at
\* least the minimum match score.
FilteredRecs(recommendations, selected_categories, min_match_score) ==
    SelectSeq(recommendations,
              LAMBDA rec : /\ rec.category \in selected_categories
                           /\ rec.match_score >= min_match_score)

RecommendationButtons ==
    {"none", "complete_profile", "regenerate", "skills", "learning", "market"}

\* One run of render_career_recommendations.  press is the button pressed
\* in this run and i the position in filtered_recs of a pressed entry
\* button; the sidebar filters keep their defaults (every category, 50).
\* A button can be pressed only if the previous run of the page drew it.
render_career_recommendations(press, i) ==
    LET profile == student_profile
        completion == get_completion_percentage(profile)
    IN
    IF completion = ValueError
    THEN
        /\ press = "none" /\ i = 0
        /\ view' = [page |-> "Career Recommendations",
                    exception |-> ValueError, rerun |-> FALSE]
        /\ UNCHANGED <<student_profile, career_recommendations,
                       skills_analysis, learning_roadmap, current_page,
                       selected_career_for_analysis,
                       selected_career_for_roadmap>>
    ELSE IF FracLt(completion, Frac(30, 1))
    THEN
        /\ press \in {"none", "complete_profile"} /\ i = 0
        /\ current_page' = IF press = "complete_profile"
                           THEN "Profile Builder" ELSE current_page
        /\ view' = [page |-> "Career Recommendations", blocked |-> TRUE,
                    generated |-> FALSE, error |-> FALSE, press |-> press,
                    rerun |-> press = "complete_profile"]
        /\ UNCHANGED <<student_profile, career_recommendations,
                       skills_analysis, learning_roadmap,
                       selected_career_for_analysis,
                       selected_career_for_roadmap>>
    ELSE
        \E raised \in BOOLEAN :
        LET generate == career_recommendations = <<>>
            recommendations ==
                IF generate THEN TryGetCareerRecommendations(profile, raised)
                ELSE career_recommendations
            all_categories == {rec.category : rec \in Range(recommendations)}
            filtered_recs == FilteredRecs(recommendations, all_categories, 50)
            entry == press \in {"skills", "learning", "market"}
        IN
        /\ raised => generate
        /\ press \in RecommendationButtons \ {"complete_profile"}
        /\ press # "none" => ~generate
        /\ IF entry THEN i \in 0..(Len(filtered_recs) - 1) ELSE i = 0
        /\ career_recommendations' =
              IF press = "regenerate" THEN <<>> ELSE recommendations
        /\ selected_career_for_analysis' =
              IF press = "skills" THEN Some(filtered_recs[i + 1])
              ELSE selected_career_for_analysis
        /\ selected_career_for_roadmap' =
              IF press = "learning" THEN Some(filtered_recs[i + 1])
              ELSE selected_career_for_roadmap
        /\ current_page' =
              CASE press = "skills" -> "Skills Analysis"
                [] press = "learning" -> "Learning Roadmap"
                [] press = "market" -> "Job Market Insights"
                [] OTHER -> current_page
        /\ view' = [page |-> "Career Recommendations", blocked |-> FALSE,
                    generated |-> generate, error |-> raised, press |-> press,
                    rerun |-> press # "none"]
        /\ UNCHANGED <<student_profile, skills_analysis, learning_roadmap>>

(***************************************************************************)
(* The Learning Roadmap page: render_learning_roadmap.                     *)
(***************************************************************************)
TimeframeSelectbox == <<"6 months", "1 year", "2 years", "3 years">>

IntensityOptions ==
    <<"Light (5-10 hrs/week)", "Moderate (10-20 hrs/week)",
      "Intensive (20+ hrs/week)">>

\* A variant with a plausible slip: the cached career is used as it is.
CareerDataCached(recommendations, selected_index) ==
    IF selected_career_for_roadmap # None THEN selected_career_for_roadmap[1]
    ELSE recommendations[selected_index + 1]

\* career_data = st.session_state.career_recommendations[selected_index]
CareerData(recommendations, selected_index) ==
    recommendations[selected_index + 1]

\* One run of render_learning_roadmap.  sel is the 0-based index of the
\* career the selectbox returns, target_timeframe the timeframe selectbox's
\* value, press the button pressed in this run.
render_learning_roadmap(sel, target_timeframe, press) ==
    LET profile == student_profile
        selected_career == selected_career_for_roadmap
    IN
    IF career_recommendations # <<>>
    THEN
        \E raised \in BOOLEAN, learning_intensity \in Range(IntensityOptions) :
        LET career_options == CareerOptions(career_recommendations)
            default_index == DefaultIndex(selected_career, career_options)
            selected_index == ListIndex(career_options, career_options[sel + 1])
            career_data == CareerData(career_recommendations, selected_index)
            roadmap ==
                IF press = "generate"
                THEN TryGenerateLearningRoadmap(profile, career_data,
                                                target_timeframe,
                                                learning_intensity, raised)
                ELSE learning_roadmap
        IN
        /\ sel \in 0..(Len(career_options) - 1)
        /\ target_timeframe \in Range(TimeframeSelectbox)
        /\ press \in {"none", "generate"}
        /\ raised => press = "generate"
        /\ learning_roadmap' = roadmap
        /\ view' = [page |-> "Learning Roadmap",
                    default_index |-> default_index,
                    career |-> career_data,
                    timeframe |-> target_timeframe,
                    requested |-> press = "generate",
                    error |-> raised,
                    roadmap_shown |-> roadmap # <<>>,
                    rerun |-> FALSE]
        /\ UNCHANGED <<student_profile, career_recommendations,
                       skills_analysis, current_page,
                       selected_career_for_analysis,
                       selected_career_for_roadmap>>
    ELSE
        /\ sel = 0
        /\ target_timeframe = TimeframeSelectbox[2]
        /\ press \in {"none", "get_recommendations"}
        /\ current_page' = IF press = "get_recommendations"
                           THEN "Career Recommendations" ELSE current_page
        /\ view' = [page |-> "Learning Roadmap", warning |-> TRUE,
                    rerun |-> press = "get_recommendations"]
        /\ UNCHANGED <<student_profile, career_recommendations,
                       skills_analysis, learning_roadmap,
                       selected_career_for_analysis,
                       selected_career_for_roadmap>>

(***************************************************************************)
(* The Dashboard, the sidebar navigation and main.                         *)
(***************************************************************************)
\* One run of render_dashboard; press is the button pressed in this run.
render_dashboard(press) ==
    LET completion_percentage == get_completion_percentage(student_profile)
        welcome == /\ completion_percentage # ValueError
                   /\ FracEq(completion_percentage, Frac(0, 1))
    IN /\ press \in (IF welcome THEN {"none", "start_building"}
                     ELSE {"none", "update_profile", "view_recommendations",
                           "skills_analysis"})
       /\ current_page' =
             CASE press \in {"start_building", "update_profile"} ->
                     "Profile Builder"
               [] press = "view_recommendations" -> "Career Recommendations"
               [] press = "skills_analysis" -> "Skills Analysis"
               [] OTHER -> current_page
       /\ view' = [page |-> "Dashboard", completion |-> completion_percentage,
                   rerun |-> press # "none"]
       /\ UNCHANGED <<student_profile, career_recommendations, skills_analysis,
                      learning_roadmap, selected_career_for_analysis,
                      selected_career_for_roadmap>>

Pages ==
    <<"Dashboard", "Profile Builder", "Career Recommendations",
      "Skills Analysis", "Job Market Insights", "Learning Roadmap">>

\* render_navigation with the sidebar button of page pressed: the page is
\* set and the script is rerun before any page is rendered.
render_navigation(page) ==
    /\ page \in Range(Pages)
    /\ current_page' = page
    /\ view' = [page |-> "Navigation", rerun |-> TRUE]
    /\ UNCHANGED <<student_profile, career_recommendations, skills_analysis,
                   learning_roadmap, selected_career_for_analysis,
                   selected_career_for_roadmap>>

\* A variant with a plausible slip: the Dashboard is rendered whatever
\* current_page holds.
main_always_dashboard == render_dashboard("none")

\* main with no widget touched: the page of current_page is rendered, its
\* selectboxes at their default index.
main ==
    CASE current_page = "Dashboard" -> render_dashboard("none")
      [] current_page = "Profile Builder" -> render_profile_builder(None, FALSE)
      [] current_page = "Career Recommendations" ->
            render_career_recommendations("none", 0)
      [] current_page = "Skills Analysis" ->
            render_skills_analysis(
                DefaultIndex(selected_career_for_analysis,
                             CareerOptions(career_recommendations)), "none")
      [] current_page = "Learning Roadmap" ->
            render_learning_roadmap(
                DefaultIndex(selected_career_for_roadmap,
                             CareerOptions(career_recommendations)),
                TimeframeSelectbox[2], "none")
      [] OTHER ->
            /\ view' = [page |-> current_page, rerun |-> FALSE]
            /\ UNCHANGED <<student_profile, career_recommendations,
                           skills_analysis, learning_roadmap, current_page,
                           selected_career_for_analysis,
                           selected_career_for_roadmap>>

(***************************************************************************)
(* A whole session: every step is one run of the script, started by one    *)
(* user interaction or by st.rerun().  The user's choices are drawn from   *)
(* the small sets below.                                                   *)
(***************************************************************************)
SessionPages ==
    {"Dashboard", "Profile Builder", "Career Recommendations",
     "Skills Analysis", "Job Market Insights", "Learning Roadmap"}
SessionSkillTexts == {<<"Programming">>}
SessionTechnicalSkills == {"Data Analysis"}
SessionInterests == {"Technology"}
SessionPicks == {0, 4}
SessionTimeframes == {"6 months"}

SessionEdits(profile) ==
    {<<"current_skills", v>> : v \in SessionSkillTexts}
    \cup {<<"tech_skills", Toggle(profile.technical_skills, o)>> :
             o \in SessionTechnicalSkills}
    \cup {<<"interests", Toggle(profile.interests, o)>> :
             o \in SessionInterests}

SessionInit == FormInit

Navigate ==
    /\ ~RerunPending
    /\ \E page \in SessionPages : render_navigation(page)

Rerun ==
    /\ RerunPending
    /\ main

UseDashboard ==
    /\ ~RerunPending
    /\ current_page = "Dashboard"
    /\ \E press \in {"start_building", "update_profile",
                     "view_recommendations", "skills_analysis"} :
          render_dashboard(press)

UseProfileBuilder ==
    /\ ~RerunPending
    /\ current_page = "Profile Builder"
    /\ \E edit \in SessionEdits(student_profile) :
          render_profile_builder(edit, FALSE)

UseCareerRecommendations ==
    /\ ~RerunPending
    /\ current_page = "Career Recommendations"
    /\ \E press \in {"complete_profile", "regenerate", "skills", "learning",
                     "market"},
          i \in SessionPicks \cup {0} :
          render_career_recommendations(press, i)

UseSkillsAnalysis ==
    /\ ~RerunPending
    /\ current_page = "Skills Analysis"
    /\ \E sel \in SessionPicks \cup {0},
          press \in {"none", "analyze", "create_roadmap", "market_insights",
                     "back_to_recommendations", "get_recommendations"} :
          render_skills_analysis(sel, press)

UseLearningRoadmap ==
    /\ ~RerunPending
    /\ current_page = "Learning Roadmap"
    /\ \E sel \in SessionPicks \cup {0},
          target_timeframe \in SessionTimeframes,
          press \in {"none", "generate", "get_recommendations"} :
          render_learning_roadmap(sel, target_timeframe, press)

SessionNext ==
    \/ Navigate
    \/ Rerun
    \/ UseDashboard
    \/ UseProfileBuilder
    \/ SaveProfile
    \/ UseCareerRecommendations
    \/ UseSkillsAnalysis
    \/ UseLearningRoadmap

SpecSession == SessionInit /\ [][SessionNext]_vars

\* The scenario: the form holds technical skills "Programming (Python)" and
\* "Data Analysis" and interest "Technology", and Save has just generated the
\* recommendations from it.
ScenarioScored ==
    /\ view.page = "Profile Builder"
    /\ view.saved
    /\ student_profile.technical_skills =
          <<"Programming (Python)", "Data Analysis">>
    /\ student_profile.interests = <<"Technology">>
    /\ career_recommendations # <<>>

ScoreOf(title) ==
    (CHOOSE r \in Range(career_recommendations) : r.title = title).match_score

Titles(recs) == [i \in 1..Len(recs) |-> recs[i].title]

\* The ranking by base score alone: the scorer on the empty profile.
BaseRanking == Titles(get_sample_careers(StudentProfile))

\* C10 as stated: Software Engineer and Data Scientist both get the
\* category bonus and at least one skill-overlap bonus, both land above 90,
\* and the ranking differs from the ranking by base score.
C10_BothAboveNinety ==
    ScenarioScored =>
        /\ ScoreOf("Software Engineer") >= 85 + 10 + 5
        /\ ScoreOf("Data Scientist") >= 80 + 10 + 5
        /\ ScoreOf("Software Engineer") > 90
        /\ ScoreOf("Data Scientist") > 90
        /\ Titles(career_recommendations) # BaseRanking

\* C10 amended: both get the category bonus and no skill-overlap bonus, so
\* the scores are 95 and 90; "Data Analysis" earns Business Analyst +5
\* (75); the ranking is the ranking by base score.
C10_ScenarioScores ==
    ScenarioScored =>
        /\ ScoreOf("Software Engineer") = 85 + 10
        /\ ScoreOf("Data Scientist") = 80 + 10
        /\ ScoreOf("Business Analyst") = 70 + 5
        /\ ScoreOf("Digital Marketing Specialist") = 75
        /\ ScoreOf("UI/UX Designer") = 78
        /\ Titles(career_recommendations) = BaseRanking
        /\ BaseRanking = <<"Software Engineer", "Data Scientist",
                           "UI/UX Designer", "Digital Marketing Specialist",
                           "Business Analyst">>

\* The scenario's profile has been scored.
C10_Witness ==
    /\ ScenarioScored
    /\ career_recommendations[1].title = "Software Engineer"
    /\ career_recommendations[1].match_score = 95

(***************************************************************************)
(* Claims about a whole session.                                           *)
(***************************************************************************)
\* The run just finished stored recommendations scored from the profile as
\* it is now: Save on the Profile Builder, or the Career Recommendations
\* page finding the list empty.
JustGenerated ==
    \/ view.page = "Profile Builder" /\ view.saved
    \/ /\ view.page = "Career Recommendations"
       /\ "generated" \in DOMAIN view
       /\ view.generated

\* The base scores as written in the catalog literal.
CatalogBaseScore ==
    ("Software Engineer" :> 85) @@ ("Data Scientist" :> 80) @@
    ("Digital Marketing Specialist" :> 75) @@ ("Business Analyst" :> 70) @@
    ("UI/UX Designer" :> 78)

\* The score of every entry is the catalog's base score plus the bonuses of
\* the profile, whatever was generated before.
ScoredFromBase ==
    /\ Len(career_recommendations) = 5
    /\ {rec.title : rec \in Range(career_recommendations)}
          = DOMAIN CatalogBaseScore
    /\ \A rec \in Range(career_recommendations) :
          rec.match_score =
              Min(100, CatalogBaseScore[rec.title]
                       + 5 * OverlapCount(rec, student_profile)
                       + CategoryBonus(rec, student_profile))

\* C11: get_sample_careers is a pure function of the profile.  Every
\* generation, at any point of a session, yields the list scored from the
\* catalog's base scores (no bonus carried over from an earlier call); two
\* successive generations from profiles with equal technical skills and
\* interests store equal lists; generating on the Career Recommendations
\* page leaves the profile as it was.
C11_ScorerIsPure ==
    /\ [](JustGenerated => ScoredFromBase)
    /\ [][(/\ JustGenerated
           /\ JustGenerated'
           /\ student_profile'.technical_skills
                 = student_profile.technical_skills
           /\ student_profile'.interests = student_profile.interests)
          => career_recommendations' = career_recommendations]_vars
    /\ [][view'.page = "Career Recommendations"
          => student_profile' = student_profile]_vars

\* The list is generated again, after an analysis was made on an earlier
\* list, for a profile that earns both bonuses.
C11_Witness ==
    /\ view.page = "Career Recommendations"
    /\ "generated" \in DOMAIN view
    /\ view.generated
    /\ skills_analysis # <<>>
    /\ student_profile.technical_skills = <<"Data Analysis">>
    /\ student_profile.interests = <<"Technology">>
    /\ career_recommendations[1].title = "Software Engineer"
    /\ career_recommendations[1].match_score = 95

\* The run just finished handled a press of Analyze Skills Gap / Generate
\* Learning Roadmap.
AnalysisRequested ==
    view.page = "Skills Analysis" /\ "requested" \in DOMAIN view
    /\ view.requested

RoadmapRequested ==
    view.page = "Learning Roadmap" /\ "requested" \in DOMAIN view
    /\ view.requested

PhaseCountOf(timeframe) ==
    IF timeframe = "6 months" THEN 3 ELSE IF timeframe = "1 year" THEN 4
    ELSE IF timeframe = "2 years" THEN 6 ELSE 8

\* C12: whether or not GeminiClient or its method raised, the run that
\* handles a request ends with a complete result stored: a scored list of
\* the five careers, an analysis record with gap_analysis counting the
\* selected career's skills, a roadmap with phase_count phases.
C12_FallbackStored ==
    /\ JustGenerated => ScoredFromBase
    /\ AnalysisRequested =>
          /\ skills_analysis # <<>>
          /\ DOMAIN skills_analysis = {"gap_analysis", "recommendations"}
          /\ skills_analysis.gap_analysis.out_of =
                Cardinality(Range(view.career.required_skills))
          /\ skills_analysis.gap_analysis.have =
                Cardinality(Range(view.career.required_skills)
                            \cap Range(student_profile.current_skills))
    /\ RoadmapRequested =>
          /\ learning_roadmap # <<>>
          /\ DOMAIN learning_roadmap = {"overview", "phases", "resources"}
          /\ Len(learning_roadmap.phases) = PhaseCountOf(view.timeframe)
          /\ learning_roadmap.overview.title = view.career.title

\* The provider raised while a roadmap was requested, after an analysis had
\* been stored, and the fallback roadmap is stored.
C12_Witness ==
    /\ RoadmapRequested
    /\ view.error
    /\ skills_analysis # <<>>
    /\ Len(learning_roadmap.phases) = 3

\* The Regenerate button was pressed in the run just finished: the list is
\* cleared and st.rerun() is pending.
RegeneratePressed ==
    /\ view.page = "Career Recommendations"
    /\ "press" \in DOMAIN view
    /\ view.press = "regenerate"

\* C13: regeneration replaces the stored value wholesale.  A run that
\* generates recommendations stores exactly the list scored for the profile
\* as it is after the run, whatever list was stored before; a run that
\* generates a roadmap stores exactly the roadmap built for the selected
\* career and timeframe; Regenerate leaves the list empty and the rerun it
\* triggers generates it again, so the list is non-empty after the rerun.
C13_ReplacedWholesale ==
    /\ [][JustGenerated' =>
             /\ career_recommendations' = get_sample_careers(student_profile')
             /\ ScoredFromBase']_vars
    /\ [][RoadmapRequested' =>
             /\ learning_roadmap' =
                   generate_fallback_roadmap(student_profile', view'.career,
                                             view'.timeframe)
             /\ learning_roadmap'.overview.title = view'.career.title
             /\ learning_roadmap'.overview.timeframe = view'.timeframe]_vars
    /\ [](RegeneratePressed => career_recommendations = <<>> /\ RerunPending)
    /\ [][RegeneratePressed =>
             /\ JustGenerated'
             /\ career_recommendations' # <<>>
             /\ ~RerunPending']_vars

\* The list was regenerated on the Career Recommendations page and holds
\* another score for the career cached from the previous list.
C13_Witness ==
    /\ view.page = "Career Recommendations"
    /\ "generated" \in DOMAIN view
    /\ view.generated
    /\ selected_career_for_analysis # None
    /\ \E rec \in Range(career_recommendations) :
          /\ rec.title = selected_career_for_analysis[1].title
          /\ rec.match_score # selected_career_for_analysis[1].match_score

\* The positions (1-based) of the stored list whose entry has the cached
\* career's title and score, that is, the same label.
PositionsOf(cached) ==
    {j \in 1..Len(career_recommendations) :
        /\ career_recommendations[j].title = cached.title
        /\ career_recommendations[j].match_score = cached.match_score}

\* The rule of C14 for the selectbox drawn with default index d and the
\* cached career (None or <<career>>).
DefaultIndexRule(d, cached) ==
    /\ d \in 0..(Len(career_recommendations) - 1)
    /\ cached = None => d = 0
    /\ (cached # None /\ PositionsOf(cached[1]) = {}) => d = 0
    /\ (cached # None /\ PositionsOf(cached[1]) # {}) =>
          d + 1 \in PositionsOf(cached[1])

\* C14: on the Skills Analysis and Learning Roadmap pages the career
\* selectbox's default index is a valid index of the current list; it is 0
\* when no career is cached and when the cached career's label is no longer
\* in the list, and the cached career's position otherwise.
C14_DefaultIndex ==
    /\ (view.page = "Skills Analysis" /\ "default_index" \in DOMAIN view)
          => DefaultIndexRule(view.default_index, selected_career_for_analysis)
    /\ (view.page = "Learning Roadmap" /\ "default_index" \in DOMAIN view)
          => DefaultIndexRule(view.default_index, selected_career_for_roadmap)

\* The Skills Analysis page is drawn with a cached career whose score has
\* changed since: its title is further down the current list, the default
\* index is 0.
C14_Witness ==
    /\ view.page = "Skills Analysis"
    /\ "default_index" \in DOMAIN view
    /\ selected_career_for_analysis # None
    /\ PositionsOf(selected_career_for_analysis[1]) = {}
    /\ \E j \in 2..Len(career_recommendations) :
          career_recommendations[j].title
              = selected_career_for_analysis[1].title
    /\ view.default_index = 0

\* C15: an analysis or a roadmap is stored only by a run of its page that
\* starts with a non-empty recommendation list, leaves the list as it is and
\* computes the result for an entry of that list; a run of either page that
\* starts with an empty list only shows the warning.  So whenever an
\* analysis or a roadmap is stored, recommendations were generated before:
\* the list is non-empty, or Regenerate has just emptied it.
C15_StagesInOrder ==
    /\ [][(skills_analysis' # skills_analysis \/ AnalysisRequested') =>
             /\ AnalysisRequested'
             /\ career_recommendations # <<>>
             /\ career_recommendations' = career_recommendations
             /\ view'.career \in Range(career_recommendations)
             /\ learning_roadmap' = learning_roadmap]_vars
    /\ [][(learning_roadmap' # learning_roadmap \/ RoadmapRequested') =>
             /\ RoadmapRequested'
             /\ career_recommendations # <<>>
             /\ career_recommendations' = career_recommendations
             /\ view'.career \in Range(career_recommendations)
             /\ skills_analysis' = skills_analysis]_vars
    /\ [][(/\ view'.page \in {"Skills Analysis", "Learning Roadmap"}
           /\ career_recommendations = <<>>) =>
             /\ "warning" \in DOMAIN view'
             /\ skills_analysis' = skills_analysis
             /\ learning_roadmap' = learning_roadmap]_vars
    /\ []((skills_analysis # <<>> \/ learning_roadmap # <<>>) =>
             (career_recommendations # <<>> \/ RegeneratePressed))

\* A roadmap was generated for the last entry of the list, which is not the
\* career cached for the page, after an analysis had been stored.
C15_Witness ==
    /\ RoadmapRequested
    /\ skills_analysis # <<>>
    /\ view.career = career_recommendations[5]
    /\ selected_career_for_roadmap # None
    /\ selected_career_for_roadmap[1] # view.career
    /\ learning_roadmap.overview.title = view.career.title

\* C16: academic_performance is None or a string that float() parses to a
\* number in [0, 100], and the completion percentage shown by the Profile
\* Builder is never the ValueError of float().
C16_AcademicPerformanceParses ==
    /\ \/ student_profile.academic_performance = None
       \/ LET str == student_profile.academic_performance[1]
          IN /\ ParseFloat(str) # ValueError
             /\ FracLe(Frac(0, 1), ParseFloat(str))
             /\ FracLe(ParseFloat(str), Frac(100, 1))
    /\ view.page = "Profile Builder" =>
          /\ view.completion # ValueError
          /\ get_completion_percentage(student_profile) # ValueError

\* The user entered 75.5 and the page was run again on the stored "75.5".
C16_Witness ==
    /\ view.page = "Profile Builder"
    /\ view.saved
    /\ student_profile.academic_performance = Some("75.5")
    /\ view.completion # ValueError

(***************************************************************************)
(* Further claims about the roadmap generator.                             *)
(***************************************************************************)
\* The required skills that equal no current skill, in their order.
RECURSIVE Remaining(_, _)
Remaining(required, current) ==
    IF required = <<>> THEN <<>>
    ELSE IF \E j \in 1..Len(current) : current[j] = Head(required)
         THEN Remaining(Tail(required), current)
         ELSE <<Head(required)>> \o Remaining(Tail(required), current)

\* C17: with n skills to learn, p phases and k = max(1, n div p), phase i
\* (0-based) holds the skills at the 0-based positions i*k up to but
\* excluding min((i+1)*k, n), none when i*k >= n; the phases' lists in
\* order form a prefix of the skills to learn, and when n < p exactly the
\* last p - n phases are empty.
C17_PhaseSlices ==
    RoadmapBuilt =>
        LET skills == Remaining(view.career.required_skills,
                                student_profile.current_skills)
            n == Len(skills)
            p == Len(learning_roadmap.phases)
            k == IF n \div p >= 1 THEN n \div p ELSE 1
            phase_skills(i) == learning_roadmap.phases[i + 1].skills_to_learn
            all == ConcatPhaseSkills(learning_roadmap.phases)
        IN /\ \A i \in 0..(p - 1) :
                 IF i * k >= n THEN phase_skills(i) = <<>>
                 ELSE phase_skills(i) =
                         [j \in 1..(Min((i + 1) * k, n) - i * k) |->
                             skills[i * k + j]]
           /\ Len(all) <= n
           /\ all = [j \in 1..Len(all) |-> skills[j]]
           /\ Len(all) = Min(p * k, n)
           /\ n < p => \A i \in 0..(p - 1) : (phase_skills(i) = <<>>) <=> i >= n

\* Seven skills to learn in three phases: two skills per phase, the seventh
\* in no phase.
C17_Witness ==
    /\ RoadmapBuilt
    /\ Len(learning_roadmap.phases) = 3
    /\ Len(Remaining(view.career.required_skills,
                     student_profile.current_skills)) = 7
    /\ Len(ConcatPhaseSkills(learning_roadmap.phases)) = 6
    /\ \A i \in 1..3 : Len(learning_roadmap.phases[i].skills_to_learn) = 2

\* C18: the skills to learn are the required skills that exactly equal no
\* current skill, in the order of required_skills, repeated entries kept;
\* the roadmap's phases hold the first of them, and the roadmap is the
\* same as for the profile without its technical skills.
C18_SkillsToLearn ==
    RoadmapBuilt =>
        LET skills == Remaining(view.career.required_skills,
                                student_profile.current_skills)
            all == ConcatPhaseSkills(learning_roadmap.phases)
            p == Len(learning_roadmap.phases)
        IN /\ SkillsToLearn(student_profile, view.career) = skills
           /\ Len(all) <= Len(skills)
           /\ all = [j \in 1..Len(all) |-> skills[j]]
           /\ Len(skills) <= p => all = skills
           /\ \A s \in Range(all) :
                 s \notin Range(student_profile.current_skills)
           /\ learning_roadmap =
                 generate_fallback_roadmap(
                     [student_profile EXCEPT !.technical_skills = <<>>],
                     view.career, view.timeframe)

\* "Statistics" is required twice, held as a technical skill and, in lower
\* case only, as a current skill: it stays in the roadmap twice, while
\* "Programming", a current skill, is removed.
C18_Witness ==
    /\ RoadmapBuilt
    /\ view.career.required_skills
          = <<"Statistics", "Programming", "Statistics">>
    /\ student_profile.technical_skills = <<"Statistics">>
    /\ student_profile.current_skills = <<"Programming", "statistics">>
    /\ ConcatPhaseSkills(learning_roadmap.phases)
          = <<"Statistics", "Statistics">>

(***************************************************************************)
(* Further claims about the scorer and the diff.                           *)
(***************************************************************************)
\* The order of the catalog literal.
CatalogOrder ==
    <<"Software Engineer", "Data Scientist", "Digital Marketing Specialist",
      "Business Analyst", "UI/UX Designer">>

CatalogPosition(title) == CHOOSE k \in 1..Len(CatalogOrder) : CatalogOrder[k] = title

\* C19: two returned entries with equal adjusted scores are in catalog
\* order.
C19_StableSort ==
    \A i, j \in 1..Len(career_recommendations) :
        (/\ i < j
         /\ career_recommendations[i].match_score
               = career_recommendations[j].match_score)
        => CatalogPosition(career_recommendations[i].title)
              < CatalogPosition(career_recommendations[j].title)

\* "Data Analysis" lifts Business Analyst to 75, the score of Digital
\* Marketing Specialist, and "PYTHON" lifts Data Scientist to 85, the score
\* of Software Engineer: both ties are returned in catalog order.
C19_Witness ==
    /\ Range(student_profile.technical_skills) = {"Data Analysis", "PYTHON"}
    /\ student_profile.interests = <<>>
    /\ Titles(career_recommendations) =
          <<"Software Engineer", "Data Scientist", "UI/UX Designer",
            "Digital Marketing Specialist", "Business Analyst">>
    /\ career_recommendations[1].match_score = 85
    /\ career_recommendations[2].match_score = 85
    /\ career_recommendations[4].match_score = 75
    /\ career_recommendations[5].match_score = 75

(***************************************************************************)
(* The scorer and the diff on the same skills: a profile whose current     *)
(* skills and technical skills are one drawn list is scored, and the       *)
(* Skills Analysis page is run on one of the scored careers.               *)
(***************************************************************************)
CaseInit ==
    /\ student_profile \in
          {[StudentProfile EXCEPT !.current_skills = c,
                                  !.technical_skills = c] :
              c \in SeqsUpTo(SkillInputs, MaxSkills)}
    /\ career_recommendations = <<>>
    /\ skills_analysis = <<>>
    /\ learning_roadmap = <<>>
    /\ current_page = "Skills Analysis"
    /\ selected_career_for_analysis = None
    /\ selected_career_for_roadmap = None
    /\ view = NoView

CaseAnalyze ==
    /\ current_page = "Skills Analysis"
    /\ career_recommendations # <<>>
    /\ \E sel \in 0..(Len(career_recommendations) - 1) :
          render_skills_analysis(sel, "analyze")

CaseNext == CallGetSampleCareers \/ CaseAnalyze

SpecCase == CaseInit /\ [][CaseNext]_vars

\* C20: a current skill and a required skill that differ only in letter
\* case (neither occurring exactly on the other side) do not match in the
\* diff: the current skill is in extra, the required skill in missing,
\* neither in matched; the same pair as technical skill and required skill
\* is counted by the scorer, which adds 5 for every such required skill.
C20_CaseSensitiveDiff ==
    GapShown =>
        LET g == view.gap[1]
            current == Range(student_profile.current_skills)
            required == Range(view.career.required_skills)
            pairs == {<<c, r>> \in current \X required :
                         /\ c # r
                         /\ Lower(c) = Lower(r)
                         /\ c \notin required
                         /\ r \notin current}
        IN /\ \A pr \in pairs :
                 /\ pr[1] \in g.extra_skills
                 /\ pr[2] \in g.missing_skills
                 /\ pr[1] \notin g.matching_skills
                 /\ pr[2] \notin g.matching_skills
           /\ student_profile.technical_skills = student_profile.current_skills
                 => view.career.match_score >=
                       Min(100, CatalogBaseScore[view.career.title]
                                + 5 * Cardinality({pr[2] : pr \in pairs}))

\* "programming" against Software Engineer's "Programming": extra and
\* missing in the diff, +5 in the score.
C20_Witness ==
    /\ GapShown
    /\ view.career.title = "Software Engineer"
    /\ student_profile.current_skills = <<"programming">>
    /\ student_profile.technical_skills = <<"programming">>
    /\ view.gap[1].extra_skills = {"programming"}
    /\ "Programming" \in view.gap[1].missing_skills
    /\ view.gap[1].matching_skills = {}
    /\ view.career.match_score = 85 + 5

(***************************************************************************)
(* Further claims about the roadmap generator.                             *)
(***************************************************************************)
\* C21: in every roadmap the phase at index 0 is titled "Foundation
\* Building", the phase at index phase_count - 1 "Advanced Skills &
\* Specialization", every interior phase at 0-based index i "Skill
\* Development Phase i"; there are at least 3 phases, and exactly one phase
\* carries each of the first and the last title.
C21_PhaseTitles ==
    RoadmapBuilt =>
        LET phases == learning_roadmap.phases
            n == Len(phases)
            InteriorTitle ==
                [i \in 1..6 |->
                    <<"Skill Development Phase 1", "Skill Development Phase 2",
                      "Skill Development Phase 3", "Skill Development Phase 4",
                      "Skill Development Phase 5",
                      "Skill Development Phase 6">>[i]]
        IN /\ n >= 3
           /\ phases[1].title = "Foundation Building"
           /\ phases[n].title = "Advanced Skills & Specialization"
           /\ \A i \in 1..(n - 2) : phases[i + 1].title = InteriorTitle[i]
           /\ Cardinality({k \in 1..n :
                             phases[k].title = "Foundation Building"}) = 1
           /\ Cardinality({k \in 1..n :
                  phases[k].title = "Advanced Skills & Specialization"}) = 1

\* A "2 years" roadmap: six phases, interior titles numbered 1 to 4.
C21_Witness ==
    /\ RoadmapBuilt
    /\ view.timeframe = "2 years"
    /\ Len(learning_roadmap.phases) = 6
    /\ learning_roadmap.phases[1].title = "Foundation Building"
    /\ learning_roadmap.phases[5].title = "Skill Development Phase 4"
    /\ learning_roadmap.phases[6].title = "Advanced Skills & Specialization"

(***************************************************************************)
(* GeminiClient: the constructor and the three provider methods, each      *)
(* called once on drawn inputs by a freshly constructed client.            *)
(***************************************************************************)
PlaceholderKey == "your-actual-gemini-api-key-here"

\* GeminiClient.__init__.  secret: st.secrets["api_keys"]["GEMINI_API_KEY"],
\* None when the lookup raises KeyError or FileNotFoundError; env: the
\* environment variable, None when it is not set.
GeminiClient(secret, env) ==
    LET api_key == IF secret # None THEN secret ELSE env
    IN [api_key |-> IF ~StrTruthy(api_key) \/ api_key = Some(PlaceholderKey)
                    THEN None ELSE api_key]

ClientSecrets == {None, Some(""), Some(PlaceholderKey), Some("secret-key")}
ClientEnvs == {None, Some("env-key")}

ClientInit ==
    /\ student_profile \in
          {[StudentProfile EXCEPT !.current_skills = c,
                                  !.technical_skills = c,
                                  !.interests = n] :
              c \in SeqsUpTo(SkillInputs, 1),
              n \in {<<>>, <<"Technology">>}}
    /\ career_recommendations \in
          {<<c>> : c \in Range(all_careers) \cup {LongCareer}}
    /\ skills_analysis = <<>>
    /\ learning_roadmap = <<>>
    /\ current_page = "Dashboard"
    /\ selected_career_for_analysis = None
    /\ selected_career_for_roadmap = None
    /\ view = NoView

\* client = GeminiClient(); client.get_career_recommendations(profile)
ClientGetCareerRecommendations ==
    /\ view = NoView
    /\ \E secret \in ClientSecrets, env \in ClientEnvs :
          LET client == GeminiClient(secret, env)
          IN /\ career_recommendations' =
                   client_get_career_recommendations(student_profile)
             /\ view' = [page |-> "GeminiClient",
                         method |-> "get_career_recommendations",
                         api_key |-> client.api_key,
                         career |-> career_recommendations[1]]
    /\ UNCHANGED <<student_profile, skills_analysis, learning_roadmap,
                   current_page, selected_career_for_analysis,
                   selected_career_for_roadmap>>

\* client = GeminiClient(); client.analyze_skills_gap(profile, career_data)
ClientAnalyzeSkillsGap ==
    /\ view = NoView
    /\ \E secret \in ClientSecrets, env \in ClientEnvs :
          LET client == GeminiClient(secret, env)
          IN /\ skills_analysis' =
                   client_analyze_skills_gap(student_profile,
                                             career_recommendations[1])
             /\ view' = [page |-> "GeminiClient",
                         method |-> "analyze_skills_gap",
                         api_key |-> client.api_key,
                         career |-> career_recommendations[1]]
    /\ UNCHANGED <<student_profile, career_recommendations, learning_roadmap,
                   current_page, selected_career_for_analysis,
                   selected_career_for_roadmap>>

\* client = GeminiClient()
\* client.generate_learning_roadmap(profile, career_data, timeframe, intensity)
ClientGenerateLearningRoadmap ==
    /\ view = NoView
    /\ \E secret \in ClientSecrets, env \in ClientEnvs,
          timeframe \in Range(TimeframeSelectbox),
          intensity \in Range(IntensityOptions) :
          LET client == GeminiClient(secret, env)
          IN /\ learning_roadmap' =
                   client_generate_learning_roadmap(student_profile,
                                                    career_recommendations[1],
                                                    timeframe, intensity)
             /\ view' = [page |-> "GeminiClient",
                         method |-> "generate_learning_roadmap",
                         api_key |-> client.api_key,
                         career |-> career_recommendations[1],
                         timeframe |-> timeframe,
                         intensity |-> intensity]
    /\ UNCHANGED <<student_profile, career_recommendations, skills_analysis,
                   current_page, selected_career_for_analysis,
                   selected_career_for_roadmap>>

ClientNext ==
    \/ ClientGetCareerRecommendations
    \/ ClientAnalyzeSkillsGap
    \/ ClientGenerateLearningRoadmap

SpecClient == ClientInit /\ [][ClientNext]_vars

ClientCalled(method) == view.page = "GeminiClient" /\ view.method = method

\* C22: with or without a configured API key, the client's
\* get_career_recommendations returns exactly get_sample_careers(profile),
\* analyze_skills_gap exactly generate_fallback_skills_analysis(profile,
\* career), and generate_learning_roadmap exactly
\* generate_fallback_roadmap(profile, career, timeframe).
C22_StubsEqualFallbacks ==
    /\ ClientCalled("get_career_recommendations") =>
          career_recommendations = get_sample_careers(student_profile)
    /\ ClientCalled("analyze_skills_gap") =>
          skills_analysis =
             generate_fallback_skills_analysis(student_profile, view.career)
    /\ ClientCalled("generate_learning_roadmap") =>
          learning_roadmap =
             generate_fallback_roadmap(student_profile, view.career,
                                       view.timeframe)

\* A client without an API key has scored a profile whose skill and interest
\* raise Software Engineer from 85 to 100.
C22_Witness ==
    /\ ClientCalled("get_career_recommendations")
    /\ view.api_key = None
    /\ student_profile.technical_skills = <<"programming">>
    /\ student_profile.interests = <<"Technology">>
    /\ career_recommendations[1].title = "Software Engineer"
    /\ career_recommendations[1].match_score = 100

(***************************************************************************)
(* initialize_session on a session state in which any subset of the five   *)
(* keys is present.  The session state is a function from the present keys *)
(* to their values; the state variables hold None for an absent key.       *)
(***************************************************************************)
SessionKeys ==
    {"student_profile", "career_recommendations", "skills_analysis",
     "learning_roadmap", "current_page"}

SessionDefaults ==
    [student_profile |-> StudentProfile,
     career_recommendations |-> <<>>,
     skills_analysis |-> <<>>,
     learning_roadmap |-> <<>>,
     current_page |-> "Dashboard"]

\* A variant with a plausible slip: the derived results are assigned
\* whether or not they are present.
initialize_session_resetting(session_state) ==
    [k \in DOMAIN session_state \cup SessionKeys |->
        IF k \in DOMAIN session_state
           /\ k \notin {"skills_analysis", "learning_roadmap"}
        THEN session_state[k]
        ELSE SessionDefaults[k]]

\* if key not in st.session_state: st.session_state.key = default, for each
\* of the five keys.
initialize_session(session_state) ==
    [k \in DOMAIN session_state \cup SessionKeys |->
        IF k \in DOMAIN session_state THEN session_state[k]
        ELSE SessionDefaults[k]]

\* The values of the keys in present, read from the state variables.
SessionState(present) ==
    [k \in present |->
        CASE k = "student_profile" -> student_profile
          [] k = "career_recommendations" -> career_recommendations
          [] k = "skills_analysis" -> skills_analysis
          [] k = "learning_roadmap" -> learning_roadmap
          [] k = "current_page" -> current_page]

StoredSamples ==
    [student_profile |-> {StudentProfile, FullProfile},
     career_recommendations |-> {<<>>, get_sample_careers(FullProfile)},
     skills_analysis |->
        {<<>>, generate_fallback_skills_analysis(FullProfile, all_careers[1])},
     learning_roadmap |->
        {<<>>, generate_fallback_roadmap(FullProfile, all_careers[1],
                                         "6 months")},
     current_page |-> {"Dashboard", "Skills Analysis"}]

KeyInit(present, k, value) ==
    IF k \in present THEN value \in StoredSamples[k] ELSE value = None

InitializeInit ==
    \E present \in SUBSET SessionKeys :
        /\ KeyInit(present, "student_profile", student_profile)
        /\ KeyInit(present, "career_recommendations", career_recommendations)
        /\ KeyInit(present, "skills_analysis", skills_analysis)
        /\ KeyInit(present, "learning_roadmap", learning_roadmap)
        /\ KeyInit(present, "current_page", current_page)
        /\ selected_career_for_analysis = None
        /\ selected_career_for_roadmap = None
        /\ view = [page |-> "session", present |-> present]

\* initialize_session() at the start of main.
CallInitializeSession ==
    LET before == SessionState(view.present)
        after == initialize_session(before)
    IN /\ student_profile' = after.student_profile
       /\ career_recommendations' = after.career_recommendations
       /\ skills_analysis' = after.skills_analysis
       /\ learning_roadmap' = after.learning_roadmap
       /\ current_page' = after.current_page
       /\ view' = [page |-> "initialize_session",
                   present |-> DOMAIN after,
                   before |-> before]
       /\ UNCHANGED <<selected_career_for_analysis,
                      selected_career_for_roadmap>>

InitializeNext == CallInitializeSession

SpecInitialize == InitializeInit /\ [][InitializeNext]_vars

InitializeCalled == view.page = "initialize_session"

\* C23: initialize_session creates each of student_profile (empty profile),
\* career_recommendations ([]), skills_analysis ({}), learning_roadmap ({})
\* and current_page ('Dashboard') only when the key is absent, and leaves
\* every value that was present unchanged; after it all five are present.
C23_InitializeKeepsPresent ==
    InitializeCalled =>
        /\ view.present = SessionKeys
        /\ \A k \in SessionKeys :
              SessionState(SessionKeys)[k] =
                 IF k \in DOMAIN view.before THEN view.before[k]
                 ELSE CASE k = "student_profile" -> StudentProfile
                        [] k = "current_page" -> "Dashboard"
                        [] OTHER -> <<>>

\* A session holding a filled profile, recommendations, an analysis and a
\* roadmap but no current_page: only current_page is created.
C23_Witness ==
    /\ InitializeCalled
    /\ DOMAIN view.before = SessionKeys \ {"current_page"}
    /\ student_profile = FullProfile
    /\ career_recommendations # <<>>
    /\ skills_analysis # <<>>
    /\ learning_roadmap # <<>>
    /\ current_page = "Dashboard"

(***************************************************************************)
(* Claims about whole sessions.                                            *)
(***************************************************************************)
\* The stored analysis is one that an analysis of the career produces for
\* some current-skills list of the session.
AnalysisComputedFor(career) ==
    \E c \in {<<>>} \cup SessionSkillTexts :
        skills_analysis =
           generate_fallback_skills_analysis(
              [student_profile EXCEPT !.current_skills = c], career)

\* C24: whenever the Skills Analysis page displays the stored analysis, or
\* the Learning Roadmap page the stored roadmap, under the heading naming
\* the selected career, the stored result was computed for that career.
C24_DisplayedForHeading ==
    /\ (/\ view.page = "Skills Analysis"
        /\ "analysis_shown" \in DOMAIN view
        /\ view.analysis_shown)
          => AnalysisComputedFor(view.career)
    /\ (/\ view.page = "Learning Roadmap"
        /\ "roadmap_shown" \in DOMAIN view
        /\ view.roadmap_shown)
          => learning_roadmap.overview.title = view.career.title

\* A roadmap generated for one career is displayed, without a new request,
\* under the heading of another.
C24_StaleRoadmapShown ==
    /\ view.page = "Learning Roadmap"
    /\ "roadmap_shown" \in DOMAIN view
    /\ view.roadmap_shown
    /\ ~view.requested
    /\ learning_roadmap.overview.title # view.career.title

\* C25: once current_skills is non-empty it stays non-empty after every
\* Profile Builder interaction, whatever text is submitted in the Current
\* Skills text area (empty text, blank text, blank lines); the same for
\* subjects and its text area.
C25_SkillsStayNonEmpty ==
    [][/\ student_profile.current_skills # <<>>
          => student_profile'.current_skills # <<>>
       /\ student_profile.subjects # <<>>
          => student_profile'.subjects # <<>>]_vars

\* The two places that store a generated list: the Save button of the
\* Profile Builder and the Career Recommendations page.
GeneratedBySave ==
    view.page = "Profile Builder" /\ "saved" \in DOMAIN view /\ view.saved

GeneratedByPage ==
    /\ view.page = "Career Recommendations"
    /\ "generated" \in DOMAIN view
    /\ view.generated

\* C26: a non-empty career_recommendations list was generated from a
\* profile whose completion percentage was at least 30 at generation time.
C26_GeneratedAboveGate ==
    (GeneratedBySave \/ GeneratedByPage) =>
        LET completion == get_completion_percentage(student_profile)
        IN /\ career_recommendations # <<>>
           /\ completion # ValueError
           /\ FracLe(Frac(30, 1), completion)

\* Save pressed on the form with every widget at its default: the list is
\* generated at 3 of 18 fields.
C26_SavedBelowGate ==
    /\ GeneratedBySave
    /\ career_recommendations # <<>>
    /\ FracLt(get_completion_percentage(student_profile), Frac(30, 1))

\* Nothing the user can enter in a session is in the profile: the fields
\* behind the session's edits hold their initial values.
NothingEntered ==
    /\ student_profile.current_skills = <<>>
    /\ student_profile.technical_skills = <<>>
    /\ student_profile.interests = <<>>

\* C27: a session in which the user has entered or selected nothing keeps
\* completion percentage 0 across any sequence of page visits, and the
\* Dashboard keeps taking its completion == 0 welcome branch.
C27_VisitsKeepZero ==
    NothingEntered =>
        /\ FracEq(get_completion_percentage(student_profile), Frac(0, 1))
        /\ view.page = "Dashboard" => FracEq(view.completion, Frac(0, 1))

\* The Dashboard rendered after a visit to the Profile Builder in which
\* nothing was entered: completion is 3 of 18 fields.
C27_DashboardAfterVisit ==
    /\ NothingEntered
    /\ view.page = "Dashboard"
    /\ FracEq(view.completion, TrueDiv(3 * 100, 18))

(***************************************************************************)
(* The scorer on the profiles the Profile Builder can produce: technical   *)
(* skills are selections from the multiselect's options; interests are     *)
(* selections from the one option that is a catalog category and options   *)
(* that come close to one.                                                 *)
(***************************************************************************)
FormInterestInputs == {"Technology", "Business", "Media", "Finance"}

FormScorerInit ==
    /\ student_profile \in
          {[StudentProfile EXCEPT !.technical_skills = t, !.interests = n] :
              t \in SeqsUpTo(Range(TechnicalSkillOptions), MaxSkills),
              n \in SeqsUpTo(FormInterestInputs, MaxInterests)}
    /\ career_recommendations = <<>>
    /\ skills_analysis = <<>>
    /\ learning_roadmap = <<>>
    /\ current_page = "Career Recommendations"
    /\ selected_career_for_analysis = None
    /\ selected_career_for_roadmap = None
    /\ view = NoView

FormScorerNext == CallGetSampleCareers

SpecFormScorer == FormScorerInit /\ [][FormScorerNext]_vars

\* C28: for every profile that can be entered through the form, the first
\* entry of the recommendation list is "Software Engineer" and no score
\* exceeds 95, so the clamp to 100 is never exercised.
C28_FormProfilesRanking ==
    (/\ career_recommendations # <<>>
     /\ Range(student_profile.technical_skills)
           \subseteq Range(TechnicalSkillOptions)
     /\ Range(student_profile.interests) \subseteq Range(InterestOptions))
        => /\ career_recommendations[1].title = "Software Engineer"
           /\ \A i \in 1..Len(career_recommendations) :
                 career_recommendations[i].match_score <= 95

\* "Machine Learning" and "Technology": Data Scientist reaches 95 and ties
\* with Software Engineer, which stays first.
C28_Witness ==
    /\ career_recommendations # <<>>
    /\ student_profile.technical_skills = <<"Machine Learning">>
    /\ student_profile.interests = <<"Technology">>
    /\ career_recommendations[1].title = "Software Engineer"
    /\ career_recommendations[1].match_score = 95
    /\ career_recommendations[2].title = "Data Scientist"
    /\ career_recommendations[2].match_score = 95

(***************************************************************************)
(* Generate Learning Roadmap requests on the Learning Roadmap page, for    *)
(* every career of the list, timeframe and intensity.                      *)
(***************************************************************************)
IntensityInit ==
    /\ student_profile \in
          {[StudentProfile EXCEPT !.current_skills = c] :
              c \in SeqsUpTo(RoadmapCurrentInputs, 1)}
    /\ career_recommendations \in
          {get_sample_careers(student_profile), <<LongCareer>>}
    /\ skills_analysis = <<>>
    /\ learning_roadmap = <<>>
    /\ current_page = "Learning Roadmap"
    /\ selected_career_for_analysis = None
    /\ selected_career_for_roadmap = None
    /\ view = NoView

IntensityGenerate ==
    /\ current_page = "Learning Roadmap"
    /\ \E sel \in 0..(Len(career_recommendations) - 1),
          target_timeframe \in Range(TimeframeSelectbox) :
          render_learning_roadmap(sel, target_timeframe, "generate")

IntensityNext == IntensityGenerate

SpecIntensity == IntensityInit /\ [][IntensityNext]_vars

\* C29: the stored roadmap does not depend on the learning intensity: a
\* request for the same profile, career and timeframe with any intensity,
\* answered by the provider or by the fallback, stores the roadmap that the
\* request just made has stored.
C29_IntensityIgnored ==
    RoadmapRequested =>
        \A learning_intensity \in Range(IntensityOptions), raised \in BOOLEAN :
            TryGenerateLearningRoadmap(student_profile, view.career,
                                       view.timeframe, learning_intensity,
                                       raised)
               = learning_roadmap

\* A "2 years" roadmap answered by the provider for the seven-skill career.
C29_Witness ==
    /\ RoadmapRequested
    /\ ~view.error
    /\ view.timeframe = "2 years"
    /\ view.career.title = "Full Stack Developer"
    /\ Len(learning_roadmap.phases) = 6

(***************************************************************************)
(* Claims about navigation.                                                *)
(***************************************************************************)
\* The run that produced the next state changed current_page by a button
\* press: the handler assigned the page and called st.rerun().
PageSetByButton == "rerun" \in DOMAIN view' /\ view'.rerun

\* C30: current_page is always one of the six page names; it changes only
\* in a run in which a navigation or action button is pressed; and a run
\* that renders a page renders exactly the one named by current_page, while
\* a run with a sidebar button pressed stops before any page is rendered.
C30_OnePageDispatched ==
    /\ [](current_page \in
            {"Dashboard", "Profile Builder", "Career Recommendations",
             "Skills Analysis", "Job Market Insights", "Learning Roadmap"})
    /\ [][current_page' # current_page => PageSetByButton]_vars
    /\ [][view'.page # "Navigation" => view'.page = current_page]_vars

\* The Job Market Insights page is set by a button and then rendered.
C30_Witness ==
    /\ current_page = "Job Market Insights"
    /\ view.page = "Job Market Insights"
    /\ career_recommendations # <<>>

====
